---- MODULE Spec2Model ----
(***************************************************************************)
(* UnifiedTypesGenerator (unified-types-declarator): the declaration       *)
(* emitters, the per-file traversal and the run() pipeline, as a state     *)
(* machine.                                                                *)
(*                                                                         *)
(* Text is a sequence of string tokens; the JavaScript string it stands    *)
(* for is the concatenation of the tokens (Str).  Every template literal   *)
(* of the source contributes its literal pieces and its interpolated       *)
(* values as tokens, in order.                                             *)
(***************************************************************************)
EXTENDS Integers, Sequences, FiniteSets, TLC

(***************************************************************************)
(* Text helpers                                                            *)
(***************************************************************************)

\* The JavaScript string a token sequence stands for.
RECURSIVE Str(_)
Str(t) == IF Len(t) = 0 THEN "" ELSE Head(t) \o Str(Tail(t))

\* JavaScript truthiness of a string: it is not the empty string.
Truthy(t) == \E i \in 1..Len(t) : t[i] # ""

\* Array.prototype.join on an array of texts.
RECURSIVE Join(_, _)
Join(texts, sep) ==
  IF Len(texts) = 0 THEN <<>>
  ELSE IF Len(texts) = 1 THEN texts[1]
  ELSE texts[1] \o <<sep>> \o Join(Tail(texts), sep)

\* The concatenation of a sequence of texts (repeated +=).
RECURSIVE Concat(_)
Concat(texts) == IF Len(texts) = 0 THEN <<>> ELSE Head(texts) \o Concat(Tail(texts))

(***************************************************************************)
(* The syntax tree, as far as the generator reads it                       *)
(***************************************************************************)

\* ts.ParameterDeclaration: name text, binding-pattern elements, type,
\* question token, initializer, attached documentation blocks.
Param(name) ==
  [name |-> name, isPattern |-> FALSE, elements |-> 0, hasType |-> FALSE,
   type |-> "", questionToken |-> FALSE, initializer |-> FALSE, jsDoc |-> <<>>]

\* A class, interface or type-literal member.
Member(kind) ==
  [kind |-> kind, hasName |-> TRUE, name |-> "", hasType |-> FALSE, type |-> "",
   questionToken |-> FALSE, parameters |-> <<>>, typeParameters |-> <<>>,
   jsDoc |-> <<>>]

\* ts.EnumMember: name text and initializer text.
EnumMember(name, hasInitializer, initializer) ==
  [name |-> name, hasInitializer |-> hasInitializer, initializer |-> initializer]

\* The type node of a type alias (and the return type of a function type).
TypeNode(kind) ==
  [kind |-> kind, text |-> "", parameters |-> <<>>, members |-> <<>>,
   returnType |-> [kind |-> "Other", text |-> "", members |-> <<>>]]

\* A direct child of a source file.  hasName: node.name is there; name: its
\* text, '' for the identifier the parser supplies where the source has none;
\* keyword: const, let or var, the keyword of a variable statement.
Node(kind) ==
  [kind |-> kind, hasName |-> FALSE, name |-> "", typeParameters |-> <<>>,
   members |-> <<>>, parameters |-> <<>>, hasType |-> FALSE, type |-> "",
   typeNode |-> TypeNode("Other"), modifiers |-> <<>>, declarations |-> <<>>,
   keyword |-> "const", jsDoc |-> <<>>]

(***************************************************************************)
(* Signature formatter                                                     *)
(***************************************************************************)

\* getJsDocComment: the full text of every attached documentation block,
\* followed by a newline when there is any.
getJsDocComment(member) ==
  LET comment == member.jsDoc
  IN  IF Truthy(comment) THEN comment \o <<"\n">> ELSE <<>>

\* getGenerics: the type-parameter names, the first bare and every later one
\* after ", ".
RECURSIVE GenericsFrom(_, _, _)
GenericsFrom(typeParameters, i, genericTypes) ==
  IF i > Len(typeParameters) THEN genericTypes
  ELSE GenericsFrom(typeParameters, i + 1,
         genericTypes \o (IF ~Truthy(genericTypes)
                          THEN <<typeParameters[i]>>
                          ELSE <<", ", typeParameters[i]>>))

getGenerics(node) == GenericsFrom(node.typeParameters, 1, <<>>)

\* ParameterSignature falling back to `any` for a parameter without annotation.
ParameterSignatureAny(parameter) ==
  LET type     == IF parameter.hasType THEN parameter.type ELSE "any"
      optional == IF parameter.questionToken \/ parameter.initializer THEN "?" ELSE ""
      comment  == getJsDocComment(parameter)
      name     == IF parameter.isPattern /\ parameter.elements > 1
                  THEN "param" ELSE parameter.name
  IN  comment \o <<name, optional, ": ", type>>

\* ParameterSignature renaming every binding pattern, one element or more.
ParameterSignatureAnyPattern(parameter) ==
  LET type     == IF parameter.hasType THEN parameter.type ELSE "unknown"
      optional == IF parameter.questionToken \/ parameter.initializer THEN "?" ELSE ""
      comment  == getJsDocComment(parameter)
      name     == IF parameter.isPattern /\ parameter.elements > 0
                  THEN "param" ELSE parameter.name
  IN  comment \o <<name, optional, ": ", type>>

\* ParameterSignature marking only the question token, not the default value.
ParameterSignatureQuestionOnly(parameter) ==
  LET type     == IF parameter.hasType THEN parameter.type ELSE "unknown"
      optional == IF parameter.questionToken THEN "?" ELSE ""
      comment  == getJsDocComment(parameter)
      name     == IF parameter.isPattern /\ parameter.elements > 1
                  THEN "param" ELSE parameter.name
  IN  comment \o <<name, optional, ": ", type>>

\* The callback of getParametersSignature's map: one rendered parameter.
ParameterSignature(parameter) ==
  LET type     == IF parameter.hasType THEN parameter.type ELSE "unknown"
      optional == IF parameter.questionToken \/ parameter.initializer THEN "?" ELSE ""
      comment  == getJsDocComment(parameter)
      name     == IF parameter.isPattern /\ parameter.elements > 1
                  THEN "param" ELSE parameter.name
  IN  comment \o <<name, optional, ": ", type>>

getParametersSignature(node) ==
  Join([i \in 1..Len(node.parameters) |-> ParameterSignature(node.parameters[i])], ", ")

getPropertySignature(member) ==
  LET propertyName == member.name
      propertyType == IF member.hasType THEN member.type ELSE "unknown"
      comment      == getJsDocComment(member)
  IN  <<"\n  ">> \o comment \o <<"  ", propertyName, ": ", propertyType, "\n">>

(***************************************************************************)
(* Declaration emitters                                                    *)
(***************************************************************************)

\* `<${generics}>` when the list is not empty, '' otherwise.
Angle(genericTypes) ==
  IF Truthy(genericTypes) THEN <<"<">> \o genericTypes \o <<">">> ELSE <<>>

\* generateTypeEnumeration writing the members without their initializers.
generateTypeEnumerationNoInitializer(node) ==
  LET memberInfo(member) == <<"  ", member.name, "=", "", ",\n">>
      membersInfo ==
        Concat([i \in 1..Len(node.members) |-> memberInfo(node.members[i])])
  IN  <<"declare enum ", node.name, " {\n">> \o membersInfo \o <<"}\n\n">>

generateTypeEnumeration(node) ==
  LET memberInfo(member) ==
        LET memberName  == member.name
            memberValue == IF member.hasInitializer THEN member.initializer ELSE ""
        IN  <<"  ", memberName, "=", memberValue, ",\n">>
      membersInfo ==
        Concat([i \in 1..Len(node.members) |-> memberInfo(node.members[i])])
  IN  <<"declare enum ", node.name, " {\n">> \o membersInfo \o <<"}\n\n">>

generateTypeMethod(node) ==
  LET genericTypes    == getGenerics(node)
      methodSignature == IF node.hasType THEN node.type ELSE "void"
      parameters      == getParametersSignature(node)
      comment         == getJsDocComment(node)
  IN  IF ~node.hasName THEN <<>>
      ELSE <<"  ">> \o comment \o <<node.name>> \o Angle(genericTypes)
             \o <<"(">> \o parameters \o <<"): ", methodSignature, "\n">>

\* generateTypeInterface returning nothing for an interface without rendered
\* members.
generateTypeInterfaceSkipEmpty(node) ==
  LET memberInfo(member) ==
        IF member.kind = "PropertySignature" /\ member.hasName
        THEN getPropertySignature(member)
        ELSE IF member.kind = "MethodSignature" /\ member.hasName
        THEN LET methodName == member.name
                 parameters == getParametersSignature(member)
                 returnType == IF member.hasType THEN member.type ELSE "unknown"
             IN  <<"  ", methodName, "(">> \o parameters \o <<"): ", returnType, "\n">>
        ELSE <<>>
      membersInfo ==
        Concat([i \in 1..Len(node.members) |-> memberInfo(node.members[i])])
      genericTypes == Angle(getGenerics(node))
  IN  IF ~Truthy(membersInfo) THEN <<>>
      ELSE <<"declare interface ", node.name, " ">> \o genericTypes
             \o <<" {\n">> \o membersInfo \o <<"}\n\n">>

generateTypeInterface(node) ==
  LET memberInfo(member) ==
        IF member.kind = "PropertySignature" /\ member.hasName
        THEN getPropertySignature(member)
        ELSE IF member.kind = "MethodSignature" /\ member.hasName
        THEN LET methodName == member.name
                 parameters == getParametersSignature(member)
                 returnType == IF member.hasType THEN member.type ELSE "unknown"
             IN  <<"  ", methodName, "(">> \o parameters \o <<"): ", returnType, "\n">>
        ELSE <<>>
      membersInfo ==
        Concat([i \in 1..Len(node.members) |-> memberInfo(node.members[i])])
      genericTypes == Angle(getGenerics(node))
  IN  <<"declare interface ", node.name, " ">> \o genericTypes
        \o <<" {\n">> \o membersInfo \o <<"}\n\n">>

generateTypeType(node) ==
  LET generic     == Angle(getGenerics(node))
      declaration == <<"declare type ", node.name>> \o generic \o <<" = ">>
      type        == node.typeNode
      \* the members of a literal type that is the return type of a function type
      returnMember(member) ==
        IF member.kind = "MethodSignature" THEN generateTypeMethod(member)
        ELSE IF member.kind = "PropertySignature" THEN getPropertySignature(member)
        ELSE <<>>
      \* the members of a literal type that is the aliased type itself
      literalMember(member) ==
        IF member.kind = "MethodSignature"
        THEN LET methodName == member.name
                 parameters == getParametersSignature(member)
                 returnType == IF member.hasType THEN member.type ELSE "unknown"
             IN  <<"  ", methodName, ": (">> \o parameters \o <<") => ", returnType>>
        ELSE IF member.kind = "PropertySignature" THEN getPropertySignature(member)
        ELSE <<>>
  IN  IF type.kind = "FunctionType"
      THEN LET parametersDeclaration == getParametersSignature(type)
               withParameters ==
                 IF Truthy(parametersDeclaration)
                 THEN declaration \o <<"(">> \o parametersDeclaration \o <<")">>
                 ELSE declaration
               membersInfo ==
                 IF type.returnType.kind = "TypeLiteral"
                 THEN <<" => {\n">>
                        \o Concat([i \in 1..Len(type.returnType.members) |->
                                     returnMember(type.returnType.members[i])])
                        \o <<"}">>
                 ELSE <<>>
           IN  withParameters \o membersInfo \o <<"\n\n">>
      ELSE IF type.kind = "TypeLiteral"
      THEN declaration \o <<"{\n">>
             \o Concat([i \in 1..Len(type.members) |-> literalMember(type.members[i])])
             \o <<"}">> \o <<"\n\n">>
      ELSE declaration \o <<type.text>> \o <<"\n\n">>

\* generateVariableDeclarationType asking only whether the statement has
\* modifiers at all.
generateVariableDeclarationTypeAnyModifier(node) ==
  LET comment == getJsDocComment(node)
      declarator(declaration) ==
        IF declaration.isIdentifier THEN <<declaration.text>> ELSE <<>>
      declarationReturn ==
        <<"declare const ">>
          \o Concat([i \in 1..Len(node.declarations) |-> declarator(node.declarations[i])])
  IN  IF Len(node.modifiers) = 0 THEN <<>>
      ELSE comment \o declarationReturn \o <<"\n\n">>

\* generateVariableDeclarationType writing the keyword of the source.
generateVariableDeclarationTypeSourceKeyword(node) ==
  LET comment == getJsDocComment(node)
      declarator(declaration) ==
        IF declaration.isIdentifier THEN <<declaration.text>> ELSE <<>>
      declarationReturn ==
        <<"declare ", node.keyword, " ">>
          \o Concat([i \in 1..Len(node.declarations) |-> declarator(node.declarations[i])])
  IN  IF Len(node.modifiers) = 0 \/ node.modifiers[1] # "declare" THEN <<>>
      ELSE comment \o declarationReturn \o <<"\n\n">>

generateVariableDeclarationType(node) ==
  LET comment == getJsDocComment(node)
      declarator(declaration) ==
        IF declaration.isIdentifier THEN <<declaration.text>> ELSE <<>>
      declarationReturn ==
        <<"declare const ">>
          \o Concat([i \in 1..Len(node.declarations) |-> declarator(node.declarations[i])])
  IN  IF Len(node.modifiers) = 0 \/ node.modifiers[1] # "declare" THEN <<>>
      ELSE comment \o declarationReturn \o <<"\n\n">>

generateTypeFunction(node) ==
  IF ~(node.hasName /\ node.name # "") THEN <<>>
  ELSE LET functionName == node.name
           parameters   == getParametersSignature(node)
           returnType   == IF node.hasType THEN node.type ELSE "void"
       IN  <<"declare function ", functionName, "(">> \o parameters
             \o <<"):", returnType, "\n\n">>

generateClassType(node) ==
  LET genericClass == Angle(getGenerics(node))
      memberInfo(member) ==
        IF member.kind = "PropertyDeclaration" /\ member.hasName
        THEN getPropertySignature(member)
        ELSE IF member.kind = "MethodDeclaration" /\ member.hasName
        THEN generateTypeMethod(member)
        ELSE IF member.kind = "Constructor"
        THEN LET parameters   == getParametersSignature(member)
                 comment      == getJsDocComment(member)
                 genericTypes == Angle(getGenerics(member))
             IN  <<"  ">> \o comment \o <<"constructor">> \o genericTypes
                   \o <<"(">> \o parameters \o <<")\n">>
        ELSE <<>>
      membersInfo ==
        Concat([i \in 1..Len(node.members) |-> memberInfo(node.members[i])])
  IN  IF ~node.hasName THEN <<>>
      ELSE <<"declare class ", node.name>> \o genericClass \o <<" {\n\n">>
             \o membersInfo \o <<"}\n">>

(***************************************************************************)
(* Import declarations                                                     *)
(***************************************************************************)
\* Module specifiers are sequences of characters.

\* ts.ImportDeclaration, as far as generateTypeImport reads it: the text of
\* the module specifier, whether there is an import clause (`import 'm'` has
\* none), whether the clause has a default name, what its namedBindings is
\* ("none", "NamespaceImport" or "NamedImports") and element.name.text of
\* every element of a named import, in order.
ImportDeclaration(moduleSpecifier, namedBindings, elements) ==
  [kind |-> "ImportDeclaration", moduleSpecifier |-> moduleSpecifier,
   hasImportClause |-> TRUE, hasDefault |-> FALSE, namedBindings |-> namedBindings,
   elements |-> elements]

\* new Map(): no module specifier is recorded.
NoImports == [m \in {} |-> <<>>]

\* Set.prototype.has, on a set kept in insertion order.
SetHas(set, value) == \E k \in 1..Len(set) : set[k] = value

\* new Set(values): the values in the order of their first occurrence.
NewSet(values) ==
  LET RECURSIVE From(_, _)
      From(i, set) ==
        IF i > Len(values) THEN set
        ELSE From(i + 1, IF SetHas(set, values[i]) THEN set ELSE Append(set, values[i]))
  IN  From(1, <<>>)

\* AddMissing listing every element again, recorded before or not.
RECURSIVE AddMissingRelisting(_, _, _, _)
AddMissingRelisting(elements, i, set, declaration) ==
  IF i > Len(elements) THEN [set |-> set, declaration |-> declaration]
  ELSE AddMissingRelisting(elements, i + 1,
                           IF SetHas(set, elements[i]) THEN set ELSE Append(set, elements[i]),
                           IF Truthy(declaration) THEN declaration \o <<", ", elements[i]>>
                           ELSE <<"import { ", elements[i]>>)

\* AddMissing without the add: the names it lists are not recorded.
RECURSIVE AddMissingUnrecorded(_, _, _, _)
AddMissingUnrecorded(elements, i, set, declaration) ==
  IF i > Len(elements) THEN [set |-> set, declaration |-> declaration]
  ELSE IF SetHas(set, elements[i])
  THEN AddMissingUnrecorded(elements, i + 1, set, declaration)
  ELSE AddMissingUnrecorded(elements, i + 1, set,
                            IF Truthy(declaration) THEN declaration \o <<", ", elements[i]>>
                            ELSE <<"import { ", elements[i]>>)

\* The loop of generateTypeImport over the elements of a named import of a
\* module that is recorded already: a name the set lacks is added and joins
\* the declaration, after `import { ` when it is the first and after `, `
\* otherwise.
RECURSIVE AddMissing(_, _, _, _)
AddMissing(elements, i, set, declaration) ==
  IF i > Len(elements) THEN [set |-> set, declaration |-> declaration]
  ELSE IF SetHas(set, elements[i]) THEN AddMissing(elements, i + 1, set, declaration)
  ELSE AddMissing(elements, i + 1, Append(set, elements[i]),
                  IF Truthy(declaration) THEN declaration \o <<", ", elements[i]>>
                  ELSE <<"import { ", elements[i]>>)

\* generateTypeImport on a generator whose importMap is map: the map after
\* the call and the declaration returned.  A module met for the first time
\* gets the set of the element names, rendered with Array.prototype.toString
\* (joined by ","); a recorded module gets the names it lacks.
generateTypeImport(map, node) ==
  LET modulePath == node.moduleSpecifier
      untouched  == [importMap |-> map, declaration |-> <<>>]
  IN  IF ~(/\ node.hasImportClause
           /\ Len(modulePath) > 0
           /\ modulePath[1] # "."
           /\ modulePath[1] # "/")
      THEN untouched
      ELSE IF node.namedBindings # "NamedImports"
      THEN untouched
      ELSE IF modulePath \in DOMAIN map
      THEN LET added == AddMissing(node.elements, 1, map[modulePath], <<>>)
           IN  [importMap |-> [map EXCEPT ![modulePath] = added.set],
                declaration |->
                  IF Truthy(added.declaration)
                  THEN added.declaration \o <<"} from '", Str(modulePath), "'\n\n">>
                  ELSE <<>>]
      ELSE LET set == NewSet(node.elements)
           IN  [importMap |-> [m \in DOMAIN map \cup {modulePath} |->
                                 IF m = modulePath THEN set ELSE map[m]],
                declaration |->
                  <<"import {">> \o Join([k \in 1..Len(set) |-> <<set[k]>>], ",")
                    \o <<"} from '", Str(modulePath), "'\n\n">>]

(***************************************************************************)
(* File traversal                                                          *)
(***************************************************************************)

\* VisitNode with the import branch's call restored (the source keeps it in a
\* comment): an import declaration reaches an emitter of its own.
VisitNodeImportEmitted(node) ==
  IF node.kind = "EnumDeclaration" /\ node.hasName
  THEN <<[emitter |-> "generateTypeEnumeration", text |-> generateTypeEnumeration(node)]>>
  ELSE IF node.kind = "ClassDeclaration" /\ node.hasName
  THEN <<[emitter |-> "generateClassType", text |-> generateClassType(node)]>>
  ELSE IF node.kind = "InterfaceDeclaration" /\ node.hasName
  THEN <<[emitter |-> "generateTypeInterface", text |-> generateTypeInterface(node)]>>
  ELSE IF node.kind = "TypeAliasDeclaration" /\ node.hasName
  THEN <<[emitter |-> "generateTypeType", text |-> generateTypeType(node)]>>
  ELSE IF node.kind = "FunctionDeclaration" /\ node.hasName
  THEN <<[emitter |-> "generateTypeFunction", text |-> generateTypeFunction(node)]>>
  ELSE IF node.kind = "MethodDeclaration" /\ node.hasName
  THEN <<[emitter |-> "generateTypeMethod", text |-> generateTypeMethod(node)]>>
  ELSE IF node.kind = "VariableStatement"
  THEN <<[emitter |-> "generateVariableDeclarationType",
          text |-> generateVariableDeclarationType(node)]>>
  ELSE IF node.kind = "ImportDeclaration"
  THEN <<[emitter |-> "generateTypeImport", text |-> <<"import {a} from 'foo'\n\n">>]>>
  ELSE <<>>

\* The emitter calls the forEachChild callback makes for one child, in order:
\* the if / else-if chain of generateTypeDeclarationFromFile.  The import
\* branch is empty (its call is commented out in the source).
VisitNode(node) ==
  IF node.kind = "EnumDeclaration" /\ node.hasName
  THEN <<[emitter |-> "generateTypeEnumeration", text |-> generateTypeEnumeration(node)]>>
  ELSE IF node.kind = "ClassDeclaration" /\ node.hasName
  THEN <<[emitter |-> "generateClassType", text |-> generateClassType(node)]>>
  ELSE IF node.kind = "InterfaceDeclaration" /\ node.hasName
  THEN <<[emitter |-> "generateTypeInterface", text |-> generateTypeInterface(node)]>>
  ELSE IF node.kind = "TypeAliasDeclaration" /\ node.hasName
  THEN <<[emitter |-> "generateTypeType", text |-> generateTypeType(node)]>>
  ELSE IF node.kind = "FunctionDeclaration" /\ node.hasName
  THEN <<[emitter |-> "generateTypeFunction", text |-> generateTypeFunction(node)]>>
  ELSE IF node.kind = "MethodDeclaration" /\ node.hasName
  THEN <<[emitter |-> "generateTypeMethod", text |-> generateTypeMethod(node)]>>
  ELSE IF node.kind = "VariableStatement"
  THEN <<[emitter |-> "generateVariableDeclarationType",
          text |-> generateVariableDeclarationType(node)]>>
  ELSE IF node.kind = "ImportDeclaration"
  THEN <<>>
  ELSE <<>>

\* The calls of a whole traversal: [node |-> index of the child, emitter, text].
RECURSIVE TraverseFrom(_, _)
TraverseFrom(nodes, i) ==
  IF i > Len(nodes) THEN <<>>
  ELSE LET calls == VisitNode(nodes[i])
       IN  [k \in 1..Len(calls) |->
              [node |-> i, emitter |-> calls[k].emitter, text |-> calls[k].text]]
             \o TraverseFrom(nodes, i + 1)

\* A source file as the generator meets it: whether ts.sys.readFile returns
\* its text, what ts.createSourceFile does with what was read ("tree": a
\* syntax tree, "none": no source file, "raises": an exception), and the
\* direct children of the tree.
SourceFile(nodes) == [readable |-> TRUE, parser |-> "tree", nodes |-> nodes]

\* An entry ts.sys.readFile cannot read (a directory, a vanished file): it
\* returns undefined, and ts.createSourceFile is called with that value.
Unreadable(parser) == [readable |-> FALSE, parser |-> parser, nodes |-> <<>>]

\* generateTypeDeclarationFromFile: the outcome of one file.
\*   raised  - an exception left the method (nothing in it catches one)
\*   isNull  - the method returned null
\*   data    - the returned text otherwise
\*   calls   - the emitter calls made, in order
generateTypeDeclarationFromFile(file) ==
  IF file.parser = "raises"
  THEN [raised |-> TRUE, isNull |-> FALSE, data |-> <<>>, calls |-> <<>>]
  ELSE IF file.parser = "none"
  THEN [raised |-> FALSE, isNull |-> TRUE, data |-> <<>>, calls |-> <<>>]
  ELSE LET calls        == TraverseFrom(file.nodes, 1)
           declarations == Concat([k \in 1..Len(calls) |-> calls[k].text])
       IN  [raised |-> FALSE, isNull |-> ~Truthy(declarations),
            data |-> IF Truthy(declarations) THEN declarations ELSE <<>>,
            calls |-> calls]

(***************************************************************************)
(* File selection                                                          *)
(***************************************************************************)
\* Paths and include patterns are sequences of characters.

\* String.prototype.includes.
Includes(s, sub) ==
  \E i \in 0..(Len(s) - Len(sub)) : SubSeq(s, i + 1, i + Len(sub)) = sub

\* includePath.split('*.').at(-1): what follows the last "*." of the pattern,
\* the whole pattern when it holds none.
PatternSuffix(includePath) ==
  LET stars == {i \in 1..(Len(includePath) - 1) :
                  includePath[i] = "*" /\ includePath[i + 1] = "."}
  IN  IF stars = {} THEN includePath
      ELSE LET last == CHOOSE i \in stars : \A j \in stars : j <= i
           IN  SubSeq(includePath, last + 2, Len(includePath))

\* The filter callback of getFiles: patterns.find(...) gives the first pattern
\* the name includes, and the filter keeps the name when that value is truthy.
KeepsFile(patterns, fileName) ==
  LET hits == {k \in 1..Len(patterns) : Includes(fileName, patterns[k])}
  IN  /\ hits # {}
      /\ LET first == CHOOSE k \in hits : \A j \in hits : k <= j
         IN  Len(patterns[first]) > 0

\* getFiles, after its rootDir check: the entries of the recursive listing
\* (fileNames, a sequence of paths) the include patterns keep, in listing order.
\* Returns the indexes kept.
getFiles(include, fileNames) ==
  LET patterns == [k \in 1..Len(include) |-> PatternSuffix(include[k])]
      keep(i)  == KeepsFile(patterns, fileNames[i])
      RECURSIVE From(_)
      From(i) == IF i > Len(fileNames) THEN <<>>
                 ELSE (IF keep(i) THEN <<i>> ELSE <<>>) \o From(i + 1)
  IN  From(1)

(***************************************************************************)
(* The world of a run: sources, directory listing, configuration           *)
(***************************************************************************)

\* How many entries a directory listing holds at most.
MaxFiles == 2
\* How many times run() is started.
MaxRuns == 2

EnumColor ==
  [Node("EnumDeclaration") EXCEPT !.hasName = TRUE, !.name = "Color",
     !.members = <<EnumMember("Red", FALSE, ""), EnumMember("Green", TRUE, "2")>>]

InterfaceBox ==
  [Node("InterfaceDeclaration") EXCEPT !.hasName = TRUE, !.name = "Box",
     !.typeParameters = <<"T">>,
     !.members = <<[Member("PropertySignature") EXCEPT !.name = "value",
                      !.hasType = TRUE, !.type = "T"],
                   [Member("MethodSignature") EXCEPT !.name = "get",
                      !.hasType = TRUE, !.type = "T"]>>]

\* const x = 5;
ConstX ==
  [Node("VariableStatement") EXCEPT
     !.declarations = <<[isIdentifier |-> TRUE, text |-> "x = 5"]>>]

\* declare const y: number
DeclareY ==
  [Node("VariableStatement") EXCEPT !.modifiers = <<"declare">>,
     !.declarations = <<[isIdentifier |-> TRUE, text |-> "y: number"]>>]

\* import { a } from 'foo'
ImportFoo == Node("ImportDeclaration")

\* export default class { }
AnonymousClass == [Node("ClassDeclaration") EXCEPT !.modifiers = <<"export", "default">>]

\* function add(a: number, b) { ... }
FunctionAdd ==
  [Node("FunctionDeclaration") EXCEPT !.hasName = TRUE, !.name = "add",
     !.parameters = <<[Param("a") EXCEPT !.hasType = TRUE, !.type = "number"],
                      Param("b")>>]

\* class Point<T> { x: number; label; constructor(x: number) {} norm() {} }
ClassPoint ==
  [Node("ClassDeclaration") EXCEPT !.hasName = TRUE, !.name = "Point",
     !.typeParameters = <<"T">>,
     !.members = <<[Member("PropertyDeclaration") EXCEPT !.name = "x",
                      !.hasType = TRUE, !.type = "number"],
                   [Member("PropertyDeclaration") EXCEPT !.name = "label"],
                   [Member("Constructor") EXCEPT !.hasName = FALSE,
                      !.parameters = <<[Param("x") EXCEPT !.hasType = TRUE,
                                                          !.type = "number"]>>],
                   [Member("MethodDeclaration") EXCEPT !.name = "norm"]>>]

\* type Id = string | number
AliasId ==
  [Node("TypeAliasDeclaration") EXCEPT !.hasName = TRUE, !.name = "Id",
     !.typeNode = [TypeNode("Other") EXCEPT !.text = "string | number"]]

\* a method declaration met as a direct child of the file
MethodRun == [Node("MethodDeclaration") EXCEPT !.hasName = TRUE, !.name = "run"]

\* console.log('x')
Statement == Node("ExpressionStatement")

\* The entries a listing of rootDir can hold: relative path and content.
Entries ==
  <<[path |-> <<"a", ".", "t", "s">>,
     file |-> SourceFile(<<ImportFoo, EnumColor, ConstX>>)],
    [path |-> <<"b", ".", "t", "s">>,
     file |-> SourceFile(<<EnumColor>>)],
    [path |-> <<"c", ".", "t", "s">>,
     file |-> SourceFile(<<ImportFoo, ConstX, AnonymousClass>>)],
    [path |-> <<"t", "s">>,
     file |-> Unreadable("raises")],
    [path |-> <<"e", ".", "j", "s">>,
     file |-> SourceFile(<<Statement, MethodRun, InterfaceBox>>)],
    [path |-> <<"f", ".", "t", "s">>,
     file |-> SourceFile(<<InterfaceBox, DeclareY, FunctionAdd, ClassPoint, AliasId>>)],
    [path |-> <<"g", ".", "t", "s">>,
     file |-> Unreadable("none")]>>

EntryIds == 1..Len(Entries)

\* The listings readdirSync can return: distinct entries, in any order.
Listings ==
  UNION {{l \in [1..n -> EntryIds] : \A i, j \in 1..n : i # j => l[i] # l[j]}
           : n \in 0..MaxFiles}

PatternTs == <<"*", "*", "/", "*", ".", "t", "s">>
PatternJs == <<"*", "*", "/", "*", ".", "j", "s">>
\* src/*. : nothing follows the last "*."
PatternDot == <<"s", "r", "c", "/", "*", ".">>
\* e.js : a pattern without "*."
PatternFile == <<"e", ".", "j", "s">>

\* The parsed configuration document.
Options(include) ==
  [hasCompilerOptions |-> TRUE, hasOutFile |-> TRUE, outFile |-> "types/index.d.ts",
   hasRootDir |-> TRUE, rootDir |-> "./src", include |-> include, exclude |-> <<>>]

\* a.ts : the path of an entry, as an exclude pattern
PatternA == <<"a", ".", "t", "s">>

\* The exclude lists of a configuration document.
ExcludeLists == {<<>>, <<PatternA>>, <<PatternTs>>}

ConfigDocuments ==
  {Options(<<PatternTs>>), Options(<<PatternTs, PatternJs>>),
   [Options(<<PatternTs>>) EXCEPT !.exclude = <<PatternTs>>],
   Options(<<PatternDot>>), Options(<<PatternDot, PatternTs>>),
   Options(<<PatternJs, PatternDot>>), Options(<<PatternFile>>),
   [Options(<<PatternTs>>) EXCEPT !.hasRootDir = FALSE],
   [Options(<<PatternTs>>) EXCEPT !.hasOutFile = FALSE],
   [Options(<<PatternTs>>) EXCEPT !.hasCompilerOptions = FALSE,
                                  !.hasOutFile = FALSE, !.hasRootDir = FALSE]}

\* What the output file holds before the first run, when it exists.
OldContent == <<"declare const old: string\n">>

cwd == "/work"
defaultPathConfig == "tsconfig.declaration.json"
\* path.resolve(this.cwd, tsConfigPath || defaultPathConfig)
tsConfigPath == cwd \o "/" \o defaultPathConfig

(***************************************************************************)
(* State                                                                   *)
(***************************************************************************)

VARIABLES
  config,          \* the configuration document on disk: [exists, options]
  listing,         \* what readdirSync(rootDir, recursive) returns: entry ids
  outFile,         \* the file at the output path: [exists, content]
  tsConfigOptions, \* this.tsConfigOptions: [defined, options]
  pc,              \* where run() is: idle, configured, loop, done, failed
  files,           \* run's files: the selected entries
  idx,             \* the for-of loop's position in files
  outputContent,   \* run's outputContent
  error,           \* the exception that left run(): [thrown, type, message]
  ops,             \* the file-system calls of this run, in order
  results,         \* what generateTypeDeclarationFromFile gave for each file so far
  logged,          \* what console.error printed in this run
  startOut,        \* the file at the output path when this run started
  runs,            \* how many runs were started
  hFile,           \* emitter harness: the source file handed to the traversal
  hResult,         \* emitter harness: the outcome of that traversal
  hDirect,         \* emitter harness: the emitter of the child's kind, called directly
  previous,        \* the run before this one, as it ended: [pc, config, files, outFile]
  importMap,       \* this.importMap: the names recorded for each module specifier
  importCalls      \* the generateTypeImport calls made so far: the node, the
                   \* declaration returned and this.importMap after the call

world == <<config, listing, outFile>>
local == <<files, idx, outputContent, error, ops, results, logged, startOut>>
harness == <<hFile, hResult, hDirect>>
imports == <<importMap, importCalls>>
vars == <<config, listing, outFile, tsConfigOptions, pc, files, idx, outputContent,
          error, ops, results, logged, startOut, runs, hFile, hResult, hDirect,
          previous, importMap, importCalls>>

NoError == [thrown |-> FALSE, type |-> "", message |-> <<>>]
Thrown(type, message) == [thrown |-> TRUE, type |-> type, message |-> message]

\* The errors run() can end with.
NotFoundError ==
  Thrown("Error", <<"The TypeScript config file path not found at: ", tsConfigPath>>)
ExpectedOutFile ==
  Thrown("Error", <<"Expected outFile option in ", tsConfigPath, " session compilerOptions">>)
ExpectedRootDir ==
  Thrown("Error", <<"Expected rootDir option in ", tsConfigPath, " session compilerOptions">>)
\* this.tsConfigOptions is undefined and .compilerOptions is read from it
UndefinedOptions ==
  Thrown("TypeError", <<"Cannot read properties of undefined (reading 'compilerOptions')">>)
\* compilerOptions is undefined and .outFile is read from it
UndefinedCompilerOptions ==
  Thrown("TypeError", <<"Cannot read properties of undefined (reading 'outFile')">>)
\* path.resolve(this.cwd, undefined)
InvalidPathArgument ==
  Thrown("TypeError", <<"The \"paths[1]\" argument must be of type string. Received undefined">>)
\* an exception raised while a file is parsed or emitted
FileError(id) == Thrown("TypeError", <<"raised while processing entry ", ToString(id)>>)

Op(op, target) == [op |-> op, target |-> target]

Undefined == [defined |-> FALSE, options |-> Options(<<>>)]
NoFile == [exists |-> FALSE, content |-> <<>>]

\* The locals of a run that has not started.
FreshLocals ==
  /\ files = <<>>
  /\ idx = 0
  /\ outputContent = <<>>
  /\ error = NoError
  /\ ops = <<>>
  /\ results = <<>>
  /\ logged = <<>>

\* The traversal of the harness file has not returned yet.
Pending == [pending |-> TRUE]
\* No emitter was called directly.
NotCalled == [called |-> FALSE, text |-> <<>>]

HarnessIdle ==
  /\ hFile = <<>>
  /\ hResult = Pending
  /\ hDirect = NotCalled

\* There was no run before this one.
NoPrevious ==
  [pc |-> "none", config |-> [exists |-> FALSE, options |-> Options(<<>>)],
   files |-> <<>>, outFile |-> NoFile]

\* generateTypeImport was not called on this generator.
NoImportCalls ==
  /\ importMap = NoImports
  /\ importCalls = <<>>

\* A new generator (the constructor sets cwd and tsConfigPath and creates an
\* empty importMap) in a world of sources, a configuration document or none,
\* and an old output file or none.
Init ==
  /\ config \in {[exists |-> TRUE, options |-> o] : o \in ConfigDocuments}
                  \cup {[exists |-> FALSE, options |-> Options(<<>>)]}
  /\ listing \in Listings
  /\ outFile \in {NoFile, [exists |-> TRUE, content |-> OldContent]}
  /\ tsConfigOptions = Undefined
  /\ pc = "idle"
  /\ runs = 0
  /\ startOut = outFile
  /\ previous = NoPrevious
  /\ FreshLocals
  /\ HarnessIdle
  /\ NoImportCalls

(***************************************************************************)
(* run()                                                                   *)
(***************************************************************************)

\* setTsConfig: the value of this.tsConfigOptions after the call.  A missing
\* document raises inside the try block and the catch block prints the error:
\* the field keeps the value it had.
setTsConfig ==
  IF ~config.exists THEN tsConfigOptions
  ELSE [defined |-> TRUE, options |-> config.options]

\* run(), up to the end of `await this.setTsConfig()`.
RunSetTsConfig ==
  /\ pc = "idle"
  /\ runs < MaxRuns
  /\ runs' = runs + 1
  /\ tsConfigOptions' = setTsConfig
  /\ ops' = IF config.exists
            THEN <<Op("existsSync", "tsConfigPath"), Op("readFileSync", "tsConfigPath")>>
            ELSE <<Op("existsSync", "tsConfigPath")>>
  /\ logged' = IF config.exists THEN <<>> ELSE <<NotFoundError>>
  /\ startOut' = outFile
  /\ pc' = "configured"
  /\ UNCHANGED <<world, files, idx, outputContent, error, results, harness, previous,
                 imports>>

\* RunSelect with a getFiles that drops the entries an exclude pattern names.
RunSelectHonouringExclude ==
  /\ pc = "configured"
  /\ LET o == tsConfigOptions.options
         fileNames == [i \in 1..Len(listing) |-> Entries[listing[i]].path]
         excluded(i) == \E k \in 1..Len(o.exclude) :
                          Includes(fileNames[i], PatternSuffix(o.exclude[k]))
         selected  == SelectSeq(getFiles(o.include, fileNames), LAMBDA i : ~excluded(i))
         probe     == <<Op("existsSync", "outFile")>>
         remove    == IF outFile.exists THEN <<Op("rmSync", "outFile")>> ELSE <<>>
         fail(e, done) ==
           /\ pc' = "failed"
           /\ error' = e
           /\ ops' = ops \o done
           /\ UNCHANGED <<files, idx>>
     IN  IF ~tsConfigOptions.defined
         THEN fail(UndefinedOptions, <<>>) /\ UNCHANGED outFile
         ELSE IF ~o.hasCompilerOptions
         THEN fail(UndefinedCompilerOptions, <<>>) /\ UNCHANGED outFile
         ELSE IF ~o.hasOutFile
         THEN fail(InvalidPathArgument, <<>>) /\ UNCHANGED outFile
         ELSE /\ outFile' = NoFile
              /\ IF ~o.hasCompilerOptions \/ ~o.hasOutFile
                 THEN fail(ExpectedOutFile, probe \o remove)
                 ELSE IF ~o.hasRootDir
                 THEN fail(ExpectedRootDir, probe \o remove)
                 ELSE /\ files' = [k \in 1..Len(selected) |-> listing[selected[k]]]
                      /\ idx' = 1
                      /\ ops' = ops \o probe \o remove \o <<Op("readdirSync", "rootDir")>>
                      /\ pc' = "loop"
                      /\ UNCHANGED error
  /\ UNCHANGED <<config, listing, tsConfigOptions, outputContent, results, logged,
                 startOut, runs, harness, previous, imports>>

\* run(), from the resolution of the output path to the start of the loop:
\* the old output file is removed, then outFile is checked, then getFiles
\* checks rootDir, lists the directory and filters the listing.
RunSelect ==
  /\ pc = "configured"
  /\ LET o == tsConfigOptions.options
         fileNames == [i \in 1..Len(listing) |-> Entries[listing[i]].path]
         selected  == getFiles(o.include, fileNames)
         probe     == <<Op("existsSync", "outFile")>>
         remove    == IF outFile.exists THEN <<Op("rmSync", "outFile")>> ELSE <<>>
         fail(e, done) ==
           /\ pc' = "failed"
           /\ error' = e
           /\ ops' = ops \o done
           /\ UNCHANGED <<files, idx>>
     IN  IF ~tsConfigOptions.defined
         THEN fail(UndefinedOptions, <<>>) /\ UNCHANGED outFile
         ELSE IF ~o.hasCompilerOptions
         THEN fail(UndefinedCompilerOptions, <<>>) /\ UNCHANGED outFile
         ELSE IF ~o.hasOutFile
         THEN fail(InvalidPathArgument, <<>>) /\ UNCHANGED outFile
         ELSE /\ outFile' = NoFile
              /\ IF ~o.hasCompilerOptions \/ ~o.hasOutFile
                 THEN fail(ExpectedOutFile, probe \o remove)
                 ELSE IF ~o.hasRootDir
                 THEN fail(ExpectedRootDir, probe \o remove)
                 ELSE /\ files' = [k \in 1..Len(selected) |-> listing[selected[k]]]
                      /\ idx' = 1
                      /\ ops' = ops \o probe \o remove \o <<Op("readdirSync", "rootDir")>>
                      /\ pc' = "loop"
                      /\ UNCHANGED error
  /\ UNCHANGED <<config, listing, tsConfigOptions, outputContent, results, logged,
                 startOut, runs, harness, previous, imports>>

\* AppendData putting the newest file first.
AppendDataFirst(content, data) ==
  IF ~data.isNull THEN data.data \o <<"\n">> \o content ELSE content

\* AppendData without its `if (data)`: a null result still adds the newline.
AppendDataAlways(content, data) == content \o data.data \o <<"\n">>

\* `if (data) outputContent += data + '\n'`, for the outcome of one file.
AppendData(content, data) ==
  IF ~data.isNull THEN content \o data.data \o <<"\n">> ELSE content

\* One iteration of the for-of loop: the file is read, parsed and traversed,
\* and a truthy result is appended with a newline.  An exception raised by
\* generateTypeDeclarationFromFile leaves run(): nothing catches it.
RunProcessFile ==
  /\ pc = "loop"
  /\ idx <= Len(files)
  /\ LET id   == files[idx]
         data == generateTypeDeclarationFromFile(Entries[id].file)
     IN  /\ ops' = Append(ops, Op("readFile", ToString(id)))
         /\ IF data.raised
            THEN /\ pc' = "failed"
                 /\ error' = FileError(id)
                 /\ UNCHANGED <<idx, outputContent, results>>
            ELSE /\ outputContent' = AppendData(outputContent, data)
                 /\ results' = Append(results, [entry |-> id, isNull |-> data.isNull,
                                                data |-> data.data,
                                                calls |-> data.calls])
                 /\ idx' = idx + 1
                 /\ UNCHANGED <<pc, error>>
  /\ UNCHANGED <<world, tsConfigOptions, files, logged, startOut, runs, harness,
                 previous, imports>>

\* RunWrite appending to what the output path held when the run started.
RunWriteAppending ==
  /\ pc = "loop"
  /\ idx > Len(files)
  /\ outFile' = [exists |-> TRUE, content |-> startOut.content \o outputContent]
  /\ ops' = Append(ops, Op("writeFileSync", "outFile"))
  /\ pc' = "done"
  /\ UNCHANGED <<config, listing, tsConfigOptions, files, idx, outputContent, error,
                 results, logged, startOut, runs, harness, previous, imports>>

\* RunWrite without waiting for the loop: the file is written as soon as one
\* file was processed, and the run ends there.
RunWriteEarly ==
  /\ pc = "loop"
  /\ idx > 1 \/ idx > Len(files)
  /\ outFile' = [exists |-> TRUE, content |-> outputContent]
  /\ ops' = Append(ops, Op("writeFileSync", "outFile"))
  /\ pc' = "done"
  /\ UNCHANGED <<config, listing, tsConfigOptions, files, idx, outputContent, error,
                 results, logged, startOut, runs, harness, previous, imports>>

\* run(), after the loop: the output file is written.
RunWrite ==
  /\ pc = "loop"
  /\ idx > Len(files)
  /\ outFile' = [exists |-> TRUE, content |-> outputContent]
  /\ ops' = Append(ops, Op("writeFileSync", "outFile"))
  /\ pc' = "done"
  /\ UNCHANGED <<config, listing, tsConfigOptions, files, idx, outputContent, error,
                 results, logged, startOut, runs, harness, previous, imports>>

\* ResetLocals with the output buffer kept from the run that ended, as if it
\* were a field of the generator.
ResetLocalsKeepingBuffer ==
  /\ previous' = [pc |-> pc, config |-> config, files |-> files, outFile |-> outFile]
  /\ files' = <<>>
  /\ idx' = 0
  /\ outputContent' = outputContent
  /\ error' = NoError
  /\ ops' = <<>>
  /\ results' = <<>>
  /\ logged' = <<>>
  /\ startOut' = outFile

\* What run() starts from: its locals are new (`let outputContent = ''`), and
\* the run that ended is remembered as the previous one.
ResetLocals ==
  /\ previous' = [pc |-> pc, config |-> config, files |-> files, outFile |-> outFile]
  /\ files' = <<>>
  /\ idx' = 0
  /\ outputContent' = <<>>
  /\ error' = NoError
  /\ ops' = <<>>
  /\ results' = <<>>
  /\ logged' = <<>>
  /\ startOut' = outFile

\* The caller is about to call run() again on the same generator.
RunAgain ==
  /\ pc \in {"done", "failed"}
  /\ runs < MaxRuns
  /\ pc' = "idle"
  /\ ResetLocals
  /\ UNCHANGED <<world, tsConfigOptions, runs, harness, imports>>

\* The caller constructs a new generator for the next run.
NewGenerator ==
  /\ pc \in {"done", "failed"}
  /\ runs < MaxRuns
  /\ pc' = "idle"
  /\ tsConfigOptions' = Undefined
  /\ importMap' = NoImports
  /\ ResetLocals
  /\ UNCHANGED <<world, runs, harness, importCalls>>

\* Between two runs the configuration document is deleted.
RemoveConfig ==
  /\ pc = "idle"
  /\ runs > 0
  /\ config.exists
  /\ config' = [config EXCEPT !.exists = FALSE]
  /\ UNCHANGED <<listing, outFile, tsConfigOptions, pc, local, runs, harness, previous,
                 imports>>

\* Between two runs the exclude list of the configuration document is edited.
EditExclude ==
  /\ pc = "idle"
  /\ runs > 0
  /\ config.exists
  /\ \E exclude \in ExcludeLists \ {config.options.exclude} :
       config' = [config EXCEPT !.options.exclude = exclude]
  /\ UNCHANGED <<listing, outFile, tsConfigOptions, pc, local, runs, harness, previous,
                 imports>>

Next ==
  \/ RunSetTsConfig
  \/ RunSelect
  \/ RunProcessFile
  \/ RunWrite
  \/ RunAgain
  \/ NewGenerator
  \/ RemoveConfig
  \/ EditExclude

Spec == Init /\ [][Next]_vars


(***************************************************************************)
(* The emitters on their own: one source file, traversed once              *)
(***************************************************************************)

\* How many parameters a parameter list built from ParamBase holds at most.
MaxParams == 2
\* How many members a member list built from a member base holds at most.
MaxMembers == 2

\* The sequences of at most max distinct elements of base, in any order.
InjectiveLists(base, max) ==
  UNION {{[i \in 1..n |-> base[f[i]]] :
            f \in {g \in [1..n -> 1..Len(base)] :
                     \A i, j \in 1..n : i # j => g[i] # g[j]}}
           : n \in 0..max}

\* The names a parameter can have: an identifier, or a binding pattern (object
\* or array, nested or not) with the number of elements of its own list.
ParamNames ==
  {[name |-> "a", isPattern |-> FALSE, elements |-> 0],
   [name |-> "{ p }", isPattern |-> TRUE, elements |-> 1],
   [name |-> "[q, r]", isPattern |-> TRUE, elements |-> 2],
   [name |-> "{ s, t: [u, v], ...w }", isPattern |-> TRUE, elements |-> 3],
   [name |-> "{ k: { x, y } }", isPattern |-> TRUE, elements |-> 1]}

\* An absent type annotation, or the text of one.
Annotations ==
  {[hasType |-> FALSE, type |-> ""], [hasType |-> TRUE, type |-> "number"],
   [hasType |-> TRUE, type |-> "Map<string, T[]>"]}

DocBlocks == {<<>>, <<"/** doc */">>}

ParamSpace ==
  {[Param(n.name) EXCEPT !.isPattern = n.isPattern, !.elements = n.elements,
      !.hasType = t.hasType, !.type = t.type, !.questionToken = q,
      !.initializer = i, !.jsDoc = d] :
     n \in ParamNames, t \in Annotations, q \in BOOLEAN, i \in BOOLEAN, d \in DocBlocks}

ParamBase ==
  <<Param("b"),
    [Param("c") EXCEPT !.hasType = TRUE, !.type = "string"],
    [Param("[d, e]") EXCEPT !.isPattern = TRUE, !.elements = 2, !.initializer = TRUE]>>

ParamLists == {<<p>> : p \in ParamSpace} \cup InjectiveLists(ParamBase, MaxParams)

\* The parameter lists of members.
FewParamLists ==
  {<<>>, <<Param("b")>>,
   <<[Param("c") EXCEPT !.hasType = TRUE, !.type = "string"],
     [Param("{ p }") EXCEPT !.isPattern = TRUE, !.elements = 1, !.questionToken = TRUE]>>}

\* Property members of the given kind.
Properties(kind) ==
  {[Member(kind) EXCEPT !.name = "v", !.hasType = t.hasType, !.type = t.type,
      !.questionToken = q, !.jsDoc = d] :
     t \in Annotations, q \in BOOLEAN, d \in DocBlocks}

\* Method members of the given kind.
Methods(kind) ==
  {[Member(kind) EXCEPT !.name = "m", !.hasType = t.hasType, !.type = t.type,
      !.parameters = ps, !.typeParameters = g] :
     t \in Annotations, ps \in FewParamLists, g \in {<<>>, <<"U">>}}

Constructors ==
  {[Member("Constructor") EXCEPT !.hasName = FALSE, !.parameters = ps, !.jsDoc = d] :
     ps \in FewParamLists, d \in DocBlocks}

\* A member no emitter renders.
IndexSignature == [Member("IndexSignature") EXCEPT !.hasName = FALSE]


ClassMemberBase ==
  <<[Member("PropertyDeclaration") EXCEPT !.name = "w"],
    [Member("PropertyDeclaration") EXCEPT !.name = "x", !.hasType = TRUE, !.type = "string"],
    [Member("MethodDeclaration") EXCEPT !.name = "n", !.parameters = <<Param("b")>>],
    [Member("Constructor") EXCEPT !.hasName = FALSE,
       !.parameters = <<[Param("c") EXCEPT !.hasType = TRUE, !.type = "string"]>>]>>

SignatureBase ==
  <<[Member("PropertySignature") EXCEPT !.name = "w"],
    [Member("PropertySignature") EXCEPT !.name = "x", !.hasType = TRUE, !.type = "string"],
    [Member("MethodSignature") EXCEPT !.name = "n", !.parameters = <<Param("b")>>]>>

ClassMemberLists ==
  {<<m>> : m \in Properties("PropertyDeclaration") \cup Methods("MethodDeclaration")
                   \cup Constructors \cup {IndexSignature}}
    \cup InjectiveLists(ClassMemberBase, MaxMembers)

SignatureLists ==
  {<<m>> : m \in Properties("PropertySignature") \cup Methods("MethodSignature")
                   \cup {IndexSignature}}
    \cup InjectiveLists(SignatureBase, MaxMembers)

FewSignatureLists == InjectiveLists(SignatureBase, MaxMembers)

\* What node.name can be: absent, the identifier of the source, or (missing)
\* the empty identifier the parser supplies.
Absent == [hasName |-> FALSE, name |-> ""]
Named(name) == [hasName |-> TRUE, name |-> name]
Missing == [hasName |-> TRUE, name |-> ""]

Generics == {<<>>, <<"T">>, <<"K", "V">>}

\* enum E { A, B = 2 }, with a name or (a syntax error the parser recovers
\* from) without one.
EnumNodes ==
  {[Node("EnumDeclaration") EXCEPT !.hasName = n.hasName, !.name = n.name, !.members = ms] :
     n \in {Named("E"), Missing, Absent},
     ms \in {<<>>, <<EnumMember("A", FALSE, "")>>,
             <<EnumMember("A", FALSE, ""), EnumMember("B", TRUE, "2")>>,
             <<EnumMember("'b-c'", TRUE, "1 << 2"), EnumMember("A", FALSE, ""),
               EnumMember("D", TRUE, "A | 0x10")>>}}

\* class C<T> { ... } and export default class { ... }
ClassNodes ==
  {[Node("ClassDeclaration") EXCEPT !.hasName = n.hasName, !.name = n.name,
      !.typeParameters = g, !.members = ms] :
     n \in {Named("C"), Absent}, g \in {<<>>, <<"T">>}, ms \in ClassMemberLists}

InterfaceNodes ==
  {[Node("InterfaceDeclaration") EXCEPT !.hasName = n.hasName, !.name = n.name,
      !.typeParameters = g, !.members = ms] :
     n \in {Named("I"), Absent}, g \in Generics, ms \in SignatureLists}

\* The source text of a parameter: its name, question token, annotation and
\* default value as written.
ParamSourceText(parameter) ==
  parameter.name \o (IF parameter.questionToken THEN "?" ELSE "")
    \o (IF parameter.hasType THEN ": " \o parameter.type ELSE "")
    \o (IF parameter.initializer THEN " = 0" ELSE "")

RECURSIVE ParamsSourceText(_)
ParamsSourceText(parameters) ==
  IF Len(parameters) = 0 THEN ""
  ELSE ParamSourceText(Head(parameters))
         \o (IF Len(parameters) > 1 THEN ", " ELSE "") \o ParamsSourceText(Tail(parameters))

\* The source text of a function type: node.type.getText(sourceFile).
FunctionTypeText(parameters, returnText) ==
  "(" \o ParamsSourceText(parameters) \o ") => " \o returnText

\* The aliased types: anything rendered verbatim, a literal type, a function
\* type returning either.
TypeNodes ==
  {[TypeNode("Other") EXCEPT !.text = t] : t \in {"string | number", "{ k } | null"}}
    \cup {[TypeNode("TypeLiteral") EXCEPT !.members = ms] : ms \in SignatureLists}
    \cup {[TypeNode("FunctionType") EXCEPT !.parameters = ps,
             !.text = FunctionTypeText(ps, "void"),
             !.returnType = [kind |-> "Other", text |-> "void", members |-> <<>>]] :
            ps \in ParamLists}
    \cup {[TypeNode("FunctionType") EXCEPT !.parameters = ps,
             !.returnType = [kind |-> "TypeLiteral", text |-> "", members |-> ms]] :
            ps \in FewParamLists, ms \in FewSignatureLists}

TypeAliasNodes ==
  {[Node("TypeAliasDeclaration") EXCEPT !.hasName = n.hasName, !.name = n.name,
      !.typeParameters = g, !.typeNode = t] :
     n \in {Named("A"), Absent}, g \in {<<>>, <<"T">>}, t \in TypeNodes}

\* function f<T>(...) {}, function (...) {} and export default function (...) {}
FunctionNodes ==
  {[Node("FunctionDeclaration") EXCEPT !.hasName = n.hasName, !.name = n.name,
      !.parameters = ps, !.hasType = t.hasType, !.type = t.type,
      !.typeParameters = g] :
     n \in {Named("f"), Missing, Absent}, ps \in ParamLists, t \in Annotations,
     g \in {<<>>, <<"T">>}}

MethodNodes ==
  {[Node("MethodDeclaration") EXCEPT !.hasName = n.hasName, !.name = n.name,
      !.parameters = ps, !.hasType = t.hasType, !.type = t.type, !.typeParameters = g] :
     n \in {Named("m"), Absent}, ps \in ParamLists,
     t \in {[hasType |-> FALSE, type |-> ""], [hasType |-> TRUE, type |-> "number"]},
     g \in {<<>>, <<"U">>}}

\* The modifier lists of a variable statement; none stands for an absent
\* node.modifiers.
ModifierLists ==
  {<<>>, <<"export">>, <<"declare">>, <<"export", "declare">>, <<"export", "default">>}

Declarators ==
  {<<[isIdentifier |-> TRUE, text |-> "x = 5"]>>,
   <<[isIdentifier |-> TRUE, text |-> "y: number"]>>,
   <<[isIdentifier |-> FALSE, text |-> "{ s, t } = o"]>>,
   <<[isIdentifier |-> TRUE, text |-> "u = 1"], [isIdentifier |-> TRUE, text |-> "v = f()"]>>}

VariableNodes ==
  {[Node("VariableStatement") EXCEPT !.modifiers = m, !.declarations = ds, !.jsDoc = d,
      !.keyword = k] :
     m \in ModifierLists, ds \in Declarators, d \in DocBlocks,
     k \in {"const", "let", "var"}}

\* Every child a harness file is built around.
NodeSpace ==
  EnumNodes \cup ClassNodes \cup InterfaceNodes \cup TypeAliasNodes \cup FunctionNodes
    \cup MethodNodes \cup VariableNodes \cup {ImportFoo, Statement, InterfaceBox}


\* The files of the harness: a child alone, or between an enum and a type alias.
HarnessFiles ==
  {<<n>> : n \in NodeSpace} \cup {<<EnumColor, n, AliasId>> : n \in NodeSpace}

\* Where the child the file was built around sits in the harness file.
Subject == IF Len(hFile) = 3 THEN 2 ELSE 1

\* A generator that has run nothing, and a source file to traverse.
InitEmit ==
  /\ config = [exists |-> FALSE, options |-> Options(<<>>)]
  /\ listing = <<>>
  /\ outFile = NoFile
  /\ tsConfigOptions = Undefined
  /\ pc = "idle"
  /\ runs = 0
  /\ startOut = NoFile
  /\ previous = NoPrevious
  /\ FreshLocals
  /\ hFile \in HarnessFiles
  /\ hResult = Pending
  /\ hDirect = NotCalled
  /\ NoImportCalls

\* generateTypeDeclarationFromFile on the harness file.
TraverseFile ==
  /\ hFile # <<>>
  /\ hResult = Pending
  /\ hResult' = generateTypeDeclarationFromFile(SourceFile(hFile))
  /\ UNCHANGED <<world, tsConfigOptions, pc, local, runs, hFile, hDirect, previous,
                 imports>>

\* The class, function or method emitter, called with the child itself.
CallEmitter ==
  /\ hFile # <<>>
  /\ hDirect = NotCalled
  /\ LET node == hFile[Subject]
     IN  /\ node.kind \in {"ClassDeclaration", "FunctionDeclaration", "MethodDeclaration"}
         /\ hDirect' =
              [called |-> TRUE,
               text |-> IF node.kind = "ClassDeclaration" THEN generateClassType(node)
                        ELSE IF node.kind = "FunctionDeclaration"
                        THEN generateTypeFunction(node)
                        ELSE generateTypeMethod(node)]
  /\ UNCHANGED <<world, tsConfigOptions, pc, local, runs, hFile, hResult, previous,
                 imports>>

NextEmit ==
  \/ TraverseFile
  \/ CallEmitter

SpecEmit == InitEmit /\ [][NextEmit]_vars

(***************************************************************************)
(* generateTypeImport on its own: one generator, a sequence of calls       *)
(***************************************************************************)

\* How many generateTypeImport calls one generator receives at most.
MaxImportCalls == 3

ModuleFoo == <<"f", "o", "o">>
\* a scoped package: the "/" is not its first character
ModuleScoped == <<"@", "x", "/", "y">>
ModuleRelative == <<".", "/", "x">>
ModuleParent == <<".", ".", "/", "x">>
ModuleAbsolute == <<"/", "x">>

\* import { a, b } from 'm'
NamedImport(moduleSpecifier, elements) ==
  ImportDeclaration(moduleSpecifier, "NamedImports", elements)
\* import d from 'm'
DefaultImport(moduleSpecifier) ==
  [ImportDeclaration(moduleSpecifier, "none", <<>>) EXCEPT !.hasDefault = TRUE]
\* import * as ns from 'm'
NamespaceImport(moduleSpecifier) == ImportDeclaration(moduleSpecifier, "NamespaceImport", <<>>)
\* import 'm'
BareImport(moduleSpecifier) ==
  [ImportDeclaration(moduleSpecifier, "none", <<>>) EXCEPT !.hasImportClause = FALSE]

\* The import declarations a call can be made with.
ImportNodes ==
  {NamedImport(ModuleFoo, e) :
     e \in {<<>>, <<"a">>, <<"b">>, <<"a", "b">>, <<"b", "c">>, <<"a", "a">>,
            <<"c", "a", "c">>}}
    \cup {NamedImport(ModuleScoped, <<"a">>), NamedImport(ModuleScoped, <<"b", "a">>)}
    \cup {DefaultImport(ModuleFoo), NamespaceImport(ModuleFoo), BareImport(ModuleFoo),
          [NamespaceImport(ModuleFoo) EXCEPT !.hasDefault = TRUE],
          [NamedImport(ModuleFoo, <<"d", "a">>) EXCEPT !.hasDefault = TRUE]}
    \cup {NamedImport(ModuleRelative, <<"a">>), NamedImport(ModuleParent, <<"a", "b">>),
          NamedImport(ModuleAbsolute, <<"a">>), DefaultImport(ModuleRelative)}

\* A generator that has run nothing and was handed no import declaration.
InitImport ==
  /\ config = [exists |-> FALSE, options |-> Options(<<>>)]
  /\ listing = <<>>
  /\ outFile = NoFile
  /\ tsConfigOptions = Undefined
  /\ pc = "idle"
  /\ runs = 0
  /\ startOut = NoFile
  /\ previous = NoPrevious
  /\ FreshLocals
  /\ HarnessIdle
  /\ NoImportCalls

\* One call of generateTypeImport: the index is updated and the declaration
\* returned.
CallGenerateTypeImport ==
  /\ Len(importCalls) < MaxImportCalls
  /\ \E node \in ImportNodes :
       LET r == generateTypeImport(importMap, node)
       IN  /\ importMap' = r.importMap
           /\ importCalls' = Append(importCalls, [node |-> node,
                                                  declaration |-> r.declaration,
                                                  importMap |-> r.importMap])
  /\ UNCHANGED <<world, tsConfigOptions, pc, local, runs, harness, previous>>

NextImport == CallGenerateTypeImport

SpecImport == InitImport /\ [][NextImport]_vars

(***************************************************************************)
(* Properties of the traversal and of run()                                *)
(***************************************************************************)

\* The dispatch order of the specification: kind and the emitter that owns it.
KindOrder ==
  <<"EnumDeclaration", "ClassDeclaration", "InterfaceDeclaration",
    "TypeAliasDeclaration", "FunctionDeclaration", "MethodDeclaration",
    "VariableStatement">>
EmitterOrder ==
  <<"generateTypeEnumeration", "generateClassType", "generateTypeInterface",
    "generateTypeType", "generateTypeFunction", "generateTypeMethod",
    "generateVariableDeclarationType">>

\* The positions of KindOrder a node matches.
MatchingKinds(node) == {j \in 1..Len(KindOrder) : node.kind = KindOrder[j]}

\* The calls of a traversal that were made for child i.
CallsFor(calls, i) == {k \in 1..Len(calls) : calls[k].node = i}

\* C1: in generateTypeDeclarationFromFile every direct child of a source file
\* is handed to at most one emitter, the one of the first kind it matches in
\* the order Enum, Class, Interface, TypeAlias, Function, Method,
\* VariableStatement; a child matching none of them (an import declaration
\* included) reaches no emitter and contributes no text; the calls follow the
\* order of the children and the file's text is exactly the texts of these
\* calls, so no child's text is appended twice.
C1_DispatchOnce ==
  \A r \in 1..Len(results) :
    LET calls == results[r].calls
        nodes == Entries[results[r].entry].file.nodes
    IN  /\ \A i \in 1..Len(nodes) :
             /\ Cardinality(CallsFor(calls, i)) <= 1
             /\ MatchingKinds(nodes[i]) = {} => CallsFor(calls, i) = {}
             /\ \A k \in CallsFor(calls, i) :
                  /\ MatchingKinds(nodes[i]) # {}
                  /\ \A j \in MatchingKinds(nodes[i]) :
                       (\A m \in MatchingKinds(nodes[i]) : j <= m)
                         => calls[k].emitter = EmitterOrder[j]
        /\ \A k \in 1..Len(calls) : calls[k].node \in 1..Len(nodes)
        /\ \A k \in 1..(Len(calls) - 1) : calls[k].node < calls[k + 1].node
        /\ Str(results[r].data) = Str(Concat([k \in 1..Len(calls) |-> calls[k].text]))

\* C1 witness: a file holding an import, an enum and a variable statement was
\* traversed; the enum and the statement each reached one emitter, the import
\* none.
C1_Witness ==
  \E r \in 1..Len(results) :
    /\ results[r].entry = 1
    /\ Len(results[r].calls) = 2
    /\ results[r].calls[1].emitter = "generateTypeEnumeration"
    /\ results[r].calls[2].emitter = "generateVariableDeclarationType"

\* The texts the emitters give for the children of entry id, child by child.
EmittedBy(id) ==
  LET nodes == Entries[id].file.nodes
  IN  Concat([i \in 1..Len(nodes) |->
                Concat([k \in 1..Len(VisitNode(nodes[i])) |-> VisitNode(nodes[i])[k].text])])

\* What a file adds to the document: its declarations and one newline, or
\* nothing when it has none.
FileText(id) ==
  IF Entries[id].file.parser = "tree" /\ Truthy(EmittedBy(id))
  THEN EmittedBy(id) \o <<"\n">> ELSE <<>>

\* C2: the document run() writes is the concatenation of the emitted
\* declarations in file-then-node order: the files in the order getFiles
\* returned them, the children of a file in the order they are visited;
\* nothing is sorted and nothing is dropped as a duplicate.
C2_FileThenNodeOrder ==
  /\ \A k \in 1..Len(results) : results[k].entry = files[k]
  /\ pc = "done" =>
       /\ Len(results) = Len(files)
       /\ outFile.exists
       /\ Str(outFile.content) = Str(Concat([k \in 1..Len(files) |-> FileText(files[k])]))

\* C2 witness: two selected files hold the same enum, b.ts listed before a.ts,
\* and the written document holds the declaration twice.
C2_Witness ==
  /\ pc = "done"
  /\ files = <<2, 1>>
  /\ Str(outFile.content)
       = "declare enum Color {\n  Red=,\n  Green=2,\n}\n\n\n"
           \o "declare enum Color {\n  Red=,\n  Green=2,\n}\n\n\n"

\* C3: generateTypeDeclarationFromFile returns null exactly when no emitter
\* gave a non-empty string for any child of the file, and otherwise the
\* concatenation of the non-empty emitter results; a file whose result is
\* null adds nothing to the output buffer, not even the separator, and does
\* not end the run.
C3_NullWhenNothingEmitted ==
  /\ \A r \in 1..Len(results) :
       LET calls == results[r].calls
           nonEmpty == SelectSeq([k \in 1..Len(calls) |-> calls[k].text], Truthy)
       IN  /\ results[r].isNull <=> (\A k \in 1..Len(calls) : ~Truthy(calls[k].text))
           /\ ~results[r].isNull => Str(results[r].data) = Str(Concat(nonEmpty))
  /\ Str(outputContent)
       = Str(Concat([r \in 1..Len(results) |->
                       IF results[r].isNull THEN <<>>
                       ELSE results[r].data \o <<"\n">>]))
  /\ \A r \in 1..Len(results) :
       results[r].isNull => /\ error # FileError(results[r].entry)
                            /\ (pc = "loop" => idx > r)

\* C3 witness: c.ts (an import, `const x = 5` and an anonymous class) gave
\* null after a.ts gave a declaration, and the buffer holds only that of a.ts.
C3_Witness ==
  /\ Len(results) = 2
  /\ results[1].entry = 1 /\ ~results[1].isNull
  /\ results[2].entry = 3 /\ results[2].isNull
  /\ Len(results[2].calls) = 1
  /\ Str(outputContent) = "declare enum Color {\n  Red=,\n  Green=2,\n}\n\n\n"

\* The calls of this run that read, list, remove or write something other
\* than the configuration document (existsSync only asks whether a path exists).
Touched ==
  {k \in 1..Len(ops) : ops[k].target # "tsConfigPath" /\ ops[k].op # "existsSync"}

\* C4: when the parser cannot produce a tree for one selected file, or
\* parsing or emission of that file raises, the file is skipped and run()
\* goes on with the remaining files and writes the output: run() never ends
\* with an error once its loop over the files has started.
C4_FileFailureIsolated == pc = "failed" => idx = 0

\* C5: when the configuration has compilerOptions.outFile but no
\* compilerOptions.rootDir, run() ends with the error naming rootDir and the
\* configuration path, nothing but the configuration document has been read,
\* listed, removed or written, and the file at outFile is as it was when the
\* run started.
C5_MissingRootDirTouchesNothing ==
  (/\ pc = "failed"
   /\ config.exists
   /\ config.options.hasCompilerOptions
   /\ config.options.hasOutFile
   /\ ~config.options.hasRootDir)
    => /\ error = ExpectedRootDir
       /\ Touched = {}
       /\ outFile = startOut

\* C6: when the configuration has no compilerOptions.outFile, or no
\* compilerOptions at all, run() ends with the error 'Expected outFile option
\* in <configuration path> session compilerOptions', before any directory is
\* listed, any source file is parsed and any file is removed or written.
C6_MissingOutFileError ==
  (/\ pc \notin {"idle", "configured"}
   /\ config.exists
   /\ (~config.options.hasCompilerOptions \/ ~config.options.hasOutFile))
    => /\ pc = "failed"
       /\ error = ExpectedOutFile
       /\ \A k \in 1..Len(ops) : ops[k].op \notin {"readdirSync", "readFile", "rmSync",
                                                   "writeFileSync"}

\* C7: when the configuration document does not exist, the not-found error
\* raised while the configuration is loaded is the error that leaves run(),
\* and run() takes no later step: no selection, no parsing, no removal and no
\* write of the output file.
C7_NotFoundPropagates ==
  (pc \notin {"idle", "configured"} /\ ~config.exists)
    => /\ pc = "failed"
       /\ error = NotFoundError
       /\ Touched = {}

(***************************************************************************)
(* Properties of the emitters                                              *)
(***************************************************************************)

\* The texts the traversal of the harness file got for children other than the
\* one the file was built around, in order.
OthersText ==
  Concat([k \in 1..Len(hResult.calls) |->
            IF hResult.calls[k].node = Subject THEN <<>> ELSE hResult.calls[k].text])

\* The child the harness file was built around added nothing to the result of
\* its file: every emitter call made for it gave the empty string, and the
\* result is what the other children gave (null when they gave nothing).
SubjectAddsNothing ==
  /\ \A k \in 1..Len(hResult.calls) :
       hResult.calls[k].node = Subject => Str(hResult.calls[k].text) = ""
  /\ Str(hResult.data) = Str(OthersText)
  /\ hResult.isNull <=> (Str(OthersText) = "")

\* C8: a top-level variable statement that carries no `declare` modifier
\* contributes no text to the result of its file, whatever its declarators,
\* initializers, documentation and other modifiers are.
C8_PlainVariableEmitsNothing ==
  (/\ hFile # <<>>
   /\ hResult # Pending
   /\ hFile[Subject].kind = "VariableStatement"
   /\ \A i \in 1..Len(hFile[Subject].modifiers) : hFile[Subject].modifiers[i] # "declare")
    => /\ ~hResult.raised
       /\ SubjectAddsNothing

\* C8 witness: `export const u = 1, v = f()` with a documentation block,
\* between an enum and a type alias, was traversed and the result of the file
\* is the enum and the alias alone.
C8_Witness ==
  /\ Len(hFile) = 3
  /\ hFile[2].kind = "VariableStatement"
  /\ hFile[2].modifiers = <<"export">>
  /\ Len(hFile[2].declarations) = 2
  /\ hFile[2].jsDoc # <<>>
  /\ hResult # Pending
  /\ Len(hResult.calls) = 3
  /\ Str(hResult.data) = "declare enum Color {\n  Red=,\n  Green=2,\n}\n\n"
                           \o "declare type Id = string | number\n\n"

\* A node of a kind that is emitted under its name has no name to resolve:
\* node.name is absent, or it is the empty identifier.
Nameless(node) ==
  /\ node.kind \in {"EnumDeclaration", "ClassDeclaration", "InterfaceDeclaration",
                    "TypeAliasDeclaration", "FunctionDeclaration", "MethodDeclaration"}
  /\ (~node.hasName \/ node.name = "")

\* C9: a top-level enum, class, interface, type alias, function or method
\* node that has no resolvable name adds nothing to the result of its file
\* and raises no error, and the class, function and method emitters return
\* the empty string when called on such a node.
C9_NamelessEmitsNothing ==
  (hFile # <<>> /\ Nameless(hFile[Subject]))
    => /\ hResult # Pending => (~hResult.raised /\ SubjectAddsNothing)
       /\ hDirect.called => Str(hDirect.text) = ""

\* The parameters of the members of the given kind and of the constructors.
ParametersOf(members, kind) ==
  UNION {{members[i].parameters[j] : j \in 1..Len(members[i].parameters)} :
           i \in {k \in 1..Len(members) :
                    \/ members[k].kind = kind /\ members[k].hasName
                    \/ members[k].kind = "Constructor"}}

\* The property members of the given kind.
PropertiesOf(members, kind) ==
  {members[i] : i \in {k \in 1..Len(members) :
                         members[k].kind = kind /\ members[k].hasName}}

\* The members of the type a type alias names, when they are rendered one by
\* one: those of a literal type, and those of a literal type a function type
\* returns.
AliasMembers(type) ==
  IF type.kind = "TypeLiteral" THEN type.members
  ELSE IF type.kind = "FunctionType" /\ type.returnType.kind = "TypeLiteral"
  THEN type.returnType.members
  ELSE <<>>

\* The parameters an emitted declaration of the node renders.
RenderedParameters(node) ==
  IF node.kind \in {"FunctionDeclaration", "MethodDeclaration"}
  THEN {node.parameters[j] : j \in 1..Len(node.parameters)}
  ELSE IF node.kind = "ClassDeclaration"
  THEN ParametersOf(node.members, "MethodDeclaration")
  ELSE IF node.kind = "InterfaceDeclaration"
  THEN ParametersOf(node.members, "MethodSignature")
  ELSE IF node.kind = "TypeAliasDeclaration"
  THEN (IF node.typeNode.kind = "FunctionType"
        THEN {node.typeNode.parameters[j] : j \in 1..Len(node.typeNode.parameters)}
        ELSE {})
         \cup ParametersOf(AliasMembers(node.typeNode), "MethodSignature")
  ELSE {}

\* The property members an emitted declaration of the node renders.
RenderedProperties(node) ==
  IF node.kind = "ClassDeclaration"
  THEN PropertiesOf(node.members, "PropertyDeclaration")
  ELSE IF node.kind = "InterfaceDeclaration"
  THEN PropertiesOf(node.members, "PropertySignature")
  ELSE IF node.kind = "TypeAliasDeclaration"
  THEN PropertiesOf(AliasMembers(node.typeNode), "PropertySignature")
  ELSE {}

\* The type a parameter or property is to be rendered with.
ExpectedType(x) == IF x.hasType THEN x.type ELSE "unknown"

\* The name a parameter is rendered under.
RenderedName(parameter) ==
  IF parameter.isPattern /\ parameter.elements > 1 THEN "param" ELSE parameter.name

\* text renders the parameter as `name`, an optional mark, `: ` and the
\* expected type, and renders it under no other type.
ParameterRenderedIn(text, parameter) ==
  LET at == {i \in 1..(Len(text) - 3) :
               /\ text[i] = RenderedName(parameter)
               /\ text[i + 1] \in {"", "?"}
               /\ text[i + 2] = ": "}
  IN  /\ at # {}
      /\ \A i \in at : text[i + 3] = ExpectedType(parameter)

\* text renders the property as two spaces, `name`, `: `, the expected type
\* and a newline, and renders it under no other type.
PropertyRenderedIn(text, member) ==
  LET at == {i \in 2..(Len(text) - 3) :
               /\ text[i - 1] = "  "
               /\ text[i] = member.name
               /\ text[i + 1] = ": "}
  IN  /\ at # {}
      /\ \A i \in at : text[i + 2] = ExpectedType(member) /\ text[i + 3] = "\n"

\* The node is emitted: it has a name the emitter of its kind accepts.
Emitted(node) ==
  /\ node.kind \in {"ClassDeclaration", "InterfaceDeclaration", "TypeAliasDeclaration",
                    "FunctionDeclaration", "MethodDeclaration"}
  /\ node.hasName
  /\ node.name # ""

TypesRenderedIn(text, node) ==
  /\ \A p \in RenderedParameters(node) : ParameterRenderedIn(text, p)
  /\ \A m \in RenderedProperties(node) : PropertyRenderedIn(text, m)

\* C10: every parameter and every property member without a type annotation
\* is rendered with the literal type `unknown`, and every one with an
\* annotation is rendered with the text of the annotation, in the function,
\* method, constructor, interface-member, class-member and type-alias-member
\* emitters, both in the result of a file and in what the emitter returns.
C10_UnknownForMissingType ==
  (hFile # <<>> /\ Emitted(hFile[Subject]))
    => /\ hResult # Pending =>
            (~hResult.raised /\ ~hResult.isNull
               /\ TypesRenderedIn(hResult.data, hFile[Subject]))
       /\ hDirect.called => TypesRenderedIn(hDirect.text, hFile[Subject])

\* C10 witness: class C { w; constructor(c: string) {} } was traversed: the
\* property without annotation is `w: unknown`, the annotated parameter
\* `c: string`.
C10_Witness ==
  /\ Len(hFile) = 1
  /\ hFile[1].kind = "ClassDeclaration"
  /\ hResult # Pending
  /\ Str(hResult.data)
       = "declare class C {\n\n\n    w: unknown\n  constructor(c: string)\n}\n"

(***************************************************************************)
(* Properties of the signature formatter                                   *)
(***************************************************************************)

\* A function or method emitter was called with a named node and returned.
SignatureReturned ==
  /\ hFile # <<>>
  /\ hDirect.called
  /\ hFile[Subject].kind \in {"FunctionDeclaration", "MethodDeclaration"}
  /\ Emitted(hFile[Subject])

\* The parameter list in what the function or method emitter returned: what
\* stands between the opening parenthesis and the closing one.
ParameterText ==
  LET text == hDirect.text
      open == CHOOSE i \in 1..Len(text) :
                text[i] = "(" /\ \A j \in 1..(i - 1) : text[j] # "("
  IN  SubSeq(text, open + 1, Len(text) - 3)

\* The elements of a finite set of numbers, ascending.
RECURSIVE Ascending(_)
Ascending(S) ==
  IF S = {} THEN <<>>
  ELSE LET least == CHOOSE x \in S : \A y \in S : x <= y
       IN  <<least>> \o Ascending(S \ {least})

\* Where the rendered parameters stand in a parameter list: the positions of a
\* name, followed by the optional mark, `: ` and a type.
Slots(text) ==
  Ascending({i \in 1..(Len(text) - 3) : text[i + 1] \in {"", "?"} /\ text[i + 2] = ": "})

\* C11: getParametersSignature renders a parameter bound to a destructuring
\* pattern with more than one element under the name `param`, whatever the
\* shape of the pattern, and a parameter whose pattern has exactly one
\* element, and every identifier parameter, under the source text of its name.
C11_PatternNamedParam ==
  SignatureReturned =>
    LET parameters == hFile[Subject].parameters
        slots      == Slots(ParameterText)
    IN  /\ Len(slots) = Len(parameters)
        /\ \A j \in 1..Len(parameters) :
             LET p == parameters[j]
             IN  ParameterText[slots[j]]
                   = IF p.isPattern /\ p.elements > 1 THEN "param" ELSE p.name

\* C11 witness: function f({ k: { x, y } }) {} was emitted with the parameter
\* under the text of its one-element pattern.
C11_Witness ==
  /\ SignatureReturned
  /\ Str(hDirect.text) = "declare function f({ k: { x, y } }: unknown):void\n\n"

\* C12: getParametersSignature writes `?` after the name of a parameter
\* exactly when the parameter has a question token or a default value, and
\* joins the rendered parameters with `, ` in declaration order.
C12_OptionalMarkAndJoin ==
  SignatureReturned =>
    LET parameters == hFile[Subject].parameters
        text       == ParameterText
        slots      == Slots(text)
        n          == Len(parameters)
    IN  /\ Len(slots) = n
        /\ n = 0 <=> Len(text) = 0
        /\ \A j \in 1..n :
             LET p == parameters[j]
             IN  /\ text[slots[j] + 1] = "?" <=> (p.questionToken \/ p.initializer)
                 /\ text[slots[j] + 3] = (IF p.hasType THEN p.type ELSE "unknown")
                 /\ slots[j] = (IF j = 1 THEN 0 ELSE slots[j - 1] + 4) + Len(p.jsDoc)
                                 + (IF Len(p.jsDoc) > 0 THEN 1 ELSE 0) + 1
                 /\ j < n => text[slots[j] + 4] = ", "
                 /\ j = n => slots[j] + 3 = Len(text)

\* C12 witness: function f(c: string, [d, e] = ...) {} was emitted: the second
\* parameter, which has a default value, carries the mark, the first none.
C12_Witness ==
  /\ SignatureReturned
  /\ Len(hFile[Subject].parameters) = 2
  /\ hFile[Subject].parameters[2].initializer
  /\ ~hFile[Subject].parameters[2].questionToken
  /\ Str(hDirect.text) = "declare function f(c: string, param?: unknown):void\n\n"

(***************************************************************************)
(* Properties of the return types                                          *)
(***************************************************************************)

\* The tokens that close a rendered parameter list.
Closers == {"):", "): ", ") => "}

\* text renders the function or method of that name, and what follows the
\* closing parenthesis of its parameter list is the given return type.
ReturnRenderedIn(text, name, returnType) ==
  LET at == {i \in 1..Len(text) : text[i] = name}
  IN  /\ at # {}
      /\ \A i \in at :
           LET after == {j \in (i + 1)..(Len(text) - 1) : text[j] \in Closers}
           IN  /\ after # {}
               /\ text[(CHOOSE j \in after : \A k \in after : j <= k) + 1] = returnType

\* The method members of the given kind that have a name and no return-type
\* annotation.
UnannotatedMethods(members, kind) ==
  {members[i] : i \in {k \in 1..Len(members) :
                         /\ members[k].kind = kind
                         /\ members[k].hasName
                         /\ ~members[k].hasType}}

\* The names of the functions, methods and method signatures an emitted
\* declaration of the node renders without a return-type annotation.
UnannotatedReturns(node) ==
  IF node.kind \in {"FunctionDeclaration", "MethodDeclaration"}
  THEN (IF node.hasType THEN {} ELSE {node.name})
  ELSE LET methods ==
             IF node.kind = "ClassDeclaration"
             THEN UnannotatedMethods(node.members, "MethodDeclaration")
             ELSE IF node.kind = "InterfaceDeclaration"
             THEN UnannotatedMethods(node.members, "MethodSignature")
             ELSE UnannotatedMethods(AliasMembers(node.typeNode), "MethodSignature")
       IN  {m.name : m \in methods}

\* C13: every function declaration, method declaration and method signature
\* without a return-type annotation is rendered with the return type `void`,
\* by the function emitter, for class methods, for interface method members
\* and for method members of literal types.
C13_VoidForMissingReturn ==
  (hFile # <<>> /\ hResult # Pending /\ Emitted(hFile[Subject]))
    => \A name \in UnannotatedReturns(hFile[Subject]) :
         ReturnRenderedIn(hResult.data, name, "void")

(***************************************************************************)
(* Properties of the enum, interface and type-alias emitters               *)
(***************************************************************************)

\* What the traversal of the harness file got from the emitter of the child
\* the file was built around; nothing when no emitter was called for it.
SubjectText ==
  Concat([k \in 1..Len(hResult.calls) |->
            IF hResult.calls[k].node = Subject THEN hResult.calls[k].text ELSE <<>>])

\* The harness file was traversed and the child it was built around is an
\* emitted node of the given kind.
EmittedKind(kind) ==
  /\ hFile # <<>>
  /\ hResult # Pending
  /\ hFile[Subject].kind = kind
  /\ hFile[Subject].hasName
  /\ hFile[Subject].name # ""

\* The line the enum emitter is to write for a member.
MemberLine(member) ==
  "  " \o member.name \o "="
    \o (IF member.hasInitializer THEN member.initializer ELSE "") \o ",\n"

\* C14: for every member of a named enum, in declaration order, the enum
\* emitter writes the member's name, `=`, and the source text of the
\* initializer when the member has one and nothing when it has none.
C14_EnumMembersVerbatim ==
  EmittedKind("EnumDeclaration") =>
    LET members == hFile[Subject].members
        text    == SubjectText
    IN  /\ Len(text) = 3 + 5 * Len(members) + 1
        /\ \A j \in 1..Len(members) :
             Str(SubSeq(text, 5 * j - 1, 5 * j + 3)) = MemberLine(members[j])

\* C14 witness: enum E { 'b-c' = 1 << 2, A, D = A | 0x10 } was emitted.
C14_Witness ==
  /\ EmittedKind("EnumDeclaration")
  /\ Len(hFile) = 1
  /\ Str(hResult.data)
       = "declare enum E {\n  'b-c'=1 << 2,\n  A=,\n  D=A | 0x10,\n}\n\n"

RECURSIVE MemberLines(_)
MemberLines(members) ==
  IF Len(members) = 0 THEN "" ELSE MemberLine(Head(members)) \o MemberLines(Tail(members))

\* C15: the result of the enum emitter for a named enum is exactly
\* `declare enum Name {` and a newline, one line of two spaces, `Member=Init,`
\* and a newline for each member, then `}` followed by exactly one newline
\* and nothing else.
C15_EnumExactText ==
  EmittedKind("EnumDeclaration") =>
    Str(SubjectText)
      = "declare enum " \o hFile[Subject].name \o " {\n"
          \o MemberLines(hFile[Subject].members) \o "}\n"

\* The members are property and method signatures that carry a type
\* annotation each and no documentation block.
PlainSignatures(members) ==
  \A i \in 1..Len(members) :
    /\ members[i].kind \in {"PropertySignature", "MethodSignature"}
    /\ members[i].hasName
    /\ members[i].hasType
    /\ members[i].jsDoc = <<>>

\* The lines the interface emitter is to write for such members: `  name: Type`
\* for a property, `  name(params): ReturnType;` for a method signature.
RECURSIVE SignatureLines(_)
SignatureLines(members) ==
  IF Len(members) = 0 THEN ""
  ELSE LET member == Head(members)
           line   == IF member.kind = "PropertySignature"
                     THEN "  " \o member.name \o ": " \o member.type \o "\n"
                     ELSE "  " \o member.name \o "("
                            \o Str(getParametersSignature(member)) \o "): "
                            \o member.type \o ";\n"
       IN  line \o SignatureLines(Tail(members))

\* C16: the interface emitter renders the members in declaration order, a
\* property as the line `  name: Type`, a method signature as the line
\* `  name(params): ReturnType;`, inside `declare interface Name <Generics> {`
\* and `}` followed by a blank line; interface Box<T> { value: T; get(): T; }
\* gives `declare interface Box <T> {\n  value: T\n  get(): T;\n}\n\n`.
\* (Stated for members that are annotated and carry no documentation.)
C16_InterfaceExactText ==
  (EmittedKind("InterfaceDeclaration") /\ PlainSignatures(hFile[Subject].members))
    => /\ Str(SubjectText)
            = "declare interface " \o hFile[Subject].name \o " "
                \o Str(Angle(getGenerics(hFile[Subject]))) \o " {\n"
                \o SignatureLines(hFile[Subject].members) \o "}\n\n"
       /\ hFile[Subject] = InterfaceBox
            => Str(SubjectText)
                 = "declare interface Box <T> {\n  value: T\n  get(): T;\n}\n\n"

\* The head of a type-alias declaration: `declare type Name<Generics> = `.
AliasHead(node) ==
  "declare type " \o node.name \o Str(Angle(getGenerics(node))) \o " = "

\* text starts with the given string.
StartsWith(text, string) ==
  \E k \in 0..Len(text) : Str(SubSeq(text, 1, k)) = string

\* The aliased type is a function type that returns a literal type.
ReturnsLiteral(type) == type.kind = "FunctionType" /\ type.returnType.kind = "TypeLiteral"

\* C17: for a type alias whose aliased type is neither a literal type nor a
\* function type returning a literal type (a union, a type reference, a
\* function type returning anything else), the type-alias emitter renders
\* `declare type Name<Generics> = ` followed by the complete source text of
\* the aliased type.
C17_AliasVerbatim ==
  (/\ EmittedKind("TypeAliasDeclaration")
   /\ hFile[Subject].typeNode.kind # "TypeLiteral"
   /\ ~ReturnsLiteral(hFile[Subject].typeNode))
    => StartsWith(SubjectText, AliasHead(hFile[Subject]) \o hFile[Subject].typeNode.text)

\* C18: for a type alias whose aliased type is a function type returning a
\* literal type, the type-alias emitter renders
\* `declare type Name<Generics> = (params) => {` ... `}` with the members of
\* the literal type in declaration order; the parenthesised parameter list is
\* there for every parameter count, zero included.
C18_AliasFunctionReturningLiteral ==
  (EmittedKind("TypeAliasDeclaration") /\ ReturnsLiteral(hFile[Subject].typeNode))
    => LET type    == hFile[Subject].typeNode
           members == type.returnType.members
           text    == SubjectText
           at(j)   == {i \in 1..Len(text) : text[i] = members[j].name}
       IN  /\ StartsWith(text, AliasHead(hFile[Subject]) \o "("
                                 \o Str(getParametersSignature(type)) \o ") => {\n")
           /\ \A j \in 1..Len(members) : at(j) # {}
           /\ \A j \in 1..(Len(members) - 1) :
                \A i \in at(j), k \in at(j + 1) : i < k
           /\ \E i \in 1..Len(text) :
                /\ text[i] = "}"
                /\ \A j \in 1..Len(members) : \A k \in at(j) : k < i

\* No member of the list is of a kind the emitter of the construct renders.
NoneRendered(members, kinds) ==
  \A i \in 1..Len(members) :
    ~(members[i].kind \in kinds /\ (members[i].hasName \/ members[i].kind = "Constructor"))

\* The child the harness file was built around is a named enum, interface or
\* class or a named alias of a literal type, and has no member its emitter
\* renders.
EmptyBodied ==
  LET node == hFile[Subject]
  IN  \/ EmittedKind("EnumDeclaration") /\ node.members = <<>>
      \/ /\ EmittedKind("InterfaceDeclaration")
         /\ NoneRendered(node.members, {"PropertySignature", "MethodSignature"})
      \/ /\ EmittedKind("ClassDeclaration")
         /\ NoneRendered(node.members,
                         {"PropertyDeclaration", "MethodDeclaration", "Constructor"})
      \/ /\ EmittedKind("TypeAliasDeclaration")
         /\ node.typeNode.kind = "TypeLiteral"
         /\ NoneRendered(node.typeNode.members, {"PropertySignature", "MethodSignature"})

\* The head of the declaration of such a child, up to its opening brace.
DeclarationHead(node) ==
  IF node.kind = "EnumDeclaration" THEN "declare enum " \o node.name \o " "
  ELSE IF node.kind = "InterfaceDeclaration"
  THEN "declare interface " \o node.name \o " " \o Str(Angle(getGenerics(node))) \o " "
  ELSE IF node.kind = "ClassDeclaration"
  THEN "declare class " \o node.name \o Str(Angle(getGenerics(node))) \o " "
  ELSE AliasHead(node)

\* Braces with nothing but newlines between them, and the newlines that end
\* the declaration.
EmptyBodies == {"{\n}\n", "{\n}\n\n", "{\n\n}\n", "{\n\n}\n\n"}

\* C19: a named enum, interface or class, or an alias of a literal type, that
\* has no members (or none of a kind its emitter renders) yields a non-empty
\* declaration with an empty braces body; the declaration is not suppressed.
C19_EmptyBodyEmitted ==
  (hFile # <<>> /\ hResult # Pending /\ EmptyBodied)
    => /\ ~hResult.isNull
       /\ Truthy(SubjectText)
       /\ \E body \in EmptyBodies :
            Str(SubjectText) = DeclarationHead(hFile[Subject]) \o body

\* C19 witness: interface I<T> { [key: string]: T }, whose only member is not
\* rendered, was emitted with an empty body.
C19_Witness ==
  /\ EmittedKind("InterfaceDeclaration")
  /\ Len(hFile) = 1
  /\ Len(hFile[1].members) = 1
  /\ hFile[1].members[1].kind = "IndexSignature"
  /\ Str(hResult.data) = "declare interface I <T> {\n}\n\n"

(***************************************************************************)
(* Properties of the file selection                                        *)
(***************************************************************************)

\* The path of the entry contains the suffix of at least one include pattern.
ContainsSuffix(include, id) ==
  \E k \in 1..Len(include) : Includes(Entries[id].path, PatternSuffix(include[k]))

\* C20: getFiles keeps an entry of the listing of rootDir exactly when the
\* entry's path contains, as a substring, the suffix after the last `*.` of
\* at least one include pattern (the whole pattern when it holds no `*.`),
\* for every pattern set, patterns with an empty suffix included.
C20_KeepsEntriesContainingSuffix ==
  idx >= 1 =>
    {files[k] : k \in 1..Len(files)}
      = {listing[i] : i \in {j \in 1..Len(listing) :
                               ContainsSuffix(tsConfigOptions.options.include, listing[j])}}

(***************************************************************************)
(* Properties of two runs in a row                                         *)
(***************************************************************************)

\* This run and the one before it both wrote their document.
BothDone ==
  /\ pc = "done"
  /\ previous.pc = "done"
  /\ config.exists
  /\ previous.config.exists

\* The two configuration documents differ in their exclude lists and in
\* nothing else.
DifferOnlyInExclude(a, b) ==
  /\ a.exclude # b.exclude
  /\ [a EXCEPT !.exclude = <<>>] = [b EXCEPT !.exclude = <<>>]

C22_SecondRunWritesSameBytes ==
  (BothDone /\ config = previous.config)
    => /\ startOut = previous.outFile
       /\ startOut.exists
       /\ Str(outFile.content) = Str(previous.outFile.content)

\* C22 witness: two runs in a row over two files with one configuration
\* document; both wrote a non-empty document, and that of the first was on
\* disk when the second started.
C22_Witness ==
  /\ BothDone
  /\ config = previous.config
  /\ tsConfigOptions.defined
  /\ startOut.exists
  /\ Truthy(startOut.content)
  /\ Len(files) = MaxFiles
  /\ Truthy(outFile.content)

\* The document of this run: what every processed file gave, each followed by
\* a newline, in order.
MergedDocument ==
  Concat([r \in 1..Len(results) |->
            IF results[r].isNull THEN <<>> ELSE results[r].data \o <<"\n">>])

\* The positions of the calls of one kind among this run's file-system calls.
OpsAt(op) == {k \in 1..Len(ops) : ops[k].op = op}

\* C23: after a completed run the output path holds exactly this run's merged
\* document: a file that was there before is removed before the write, and
\* none of its content remains or is appended to.
C23_OutputReplaced ==
  /\ pc = "done" =>
       /\ outFile.exists
       /\ Len(results) = Len(files)
       /\ Str(outFile.content) = Str(MergedDocument)
       /\ startOut.exists =>
            \E r \in OpsAt("rmSync") : \A w \in OpsAt("writeFileSync") : r < w
  /\ pc = "loop" => ~outFile.exists

\* C23 witness: a run completed over an old output file and wrote a non-empty
\* document that is not the old content.
C23_Witness ==
  /\ pc = "done"
  /\ startOut.exists
  /\ Truthy(startOut.content)
  /\ Truthy(outFile.content)
  /\ Str(outFile.content) # Str(startOut.content)


(***************************************************************************)
(* Properties of generateTypeImport                                        *)
(***************************************************************************)

\* The values of a sequence.
Range(seq) == {seq[i] : i \in 1..Len(seq)}

\* The module specifier is bare: neither relative nor absolute.
IsBare(moduleSpecifier) ==
  /\ Len(moduleSpecifier) > 0
  /\ moduleSpecifier[1] \notin {".", "/"}

\* Call k was made with a named import of a bare module.
NamedBareCall(k) ==
  LET node == importCalls[k].node
  IN  /\ node.hasImportClause
      /\ node.namedBindings = "NamedImports"
      /\ IsBare(node.moduleSpecifier)

\* The binding names passed for the module of call k by the named imports
\* before it.
PassedBefore(k) ==
  UNION {Range(importCalls[j].node.elements) :
           j \in {i \in 1..(k - 1) :
                    /\ NamedBareCall(i)
                    /\ importCalls[i].node.moduleSpecifier
                         = importCalls[k].node.moduleSpecifier}}

\* Where the list of names of an import line ends.
FromAt(text) == {p \in 1..Len(text) : text[p] = "} from '"}

\* The text is one import line for the module: `import {`, a list of names,
\* `} from '`, the specifier and the closing quote with two newlines.
IsImportLine(text, moduleSpecifier) ==
  /\ Len(text) >= 4
  /\ text[1] \in {"import {", "import { "}
  /\ FromAt(text) = {Len(text) - 2}
  /\ text[Len(text) - 1] = Str(moduleSpecifier)
  /\ text[Len(text)] = "'\n\n"

\* The names an import line lists, in order ('' lists none).
ListedNames(text) ==
  IF Len(text) < 4 THEN <<>>
  ELSE SelectSeq(SubSeq(text, 2, Len(text) - 3), LAMBDA t : t \notin {",", ", "})

\* No value occurs twice in the sequence.
NoRepeat(seq) == \A i, j \in 1..Len(seq) : i # j => seq[i] # seq[j]

ModuleSpecifiers == {node.moduleSpecifier : node \in ImportNodes}

\* The names recorded for a module specifier in an importMap.
Recorded(map, moduleSpecifier) ==
  IF moduleSpecifier \in DOMAIN map THEN Range(map[moduleSpecifier]) ELSE {}

\* this.importMap before call k.
MapBefore(k) == IF k = 1 THEN NoImports ELSE importCalls[k - 1].importMap

\* C28: after any sequence of generateTypeImport calls on one generator the
\* names recorded for a module are the union of the named bindings the calls
\* for that module passed (so the set only grows from call to call); no
\* (module, name) pair is listed twice in one returned line or in two of
\* them; and a call whose specifier starts with `.` or `/`, or whose clause
\* holds no named-import list (a default or a namespace import), returns ''
\* and leaves the index as it was.
C28_ImportIndexInvariants ==
  /\ \A m \in ModuleSpecifiers :
       /\ Recorded(importMap, m)
            = UNION {Range(importCalls[k].node.elements) :
                       k \in {i \in 1..Len(importCalls) :
                                NamedBareCall(i) /\ importCalls[i].node.moduleSpecifier = m}}
       /\ \A k \in 1..Len(importCalls) :
            Recorded(MapBefore(k), m) \subseteq Recorded(importCalls[k].importMap, m)
  /\ DOMAIN importMap \subseteq ModuleSpecifiers
  /\ \A k \in 1..Len(importCalls) :
       /\ NoRepeat(ListedNames(importCalls[k].declaration))
       /\ \A j \in 1..(k - 1) :
            importCalls[j].node.moduleSpecifier = importCalls[k].node.moduleSpecifier
              => Range(ListedNames(importCalls[j].declaration))
                   \cap Range(ListedNames(importCalls[k].declaration)) = {}
  /\ \A k \in 1..Len(importCalls) :
       ~NamedBareCall(k) => /\ Str(importCalls[k].declaration) = ""
                            /\ importCalls[k].importMap = MapBefore(k)
  /\ Len(importCalls) > 0 => importMap = importCalls[Len(importCalls)].importMap

\* C28 witness: `import { a, b } from 'foo'`, `import { a } from './x'` and
\* `import { b, c } from 'foo'`: the relative import returned '' and recorded
\* nothing, and the third call listed c alone.
C28_Witness ==
  /\ Len(importCalls) = 3
  /\ importCalls[1].node = NamedImport(ModuleFoo, <<"a", "b">>)
  /\ importCalls[2].node = NamedImport(ModuleRelative, <<"a">>)
  /\ importCalls[3].node = NamedImport(ModuleFoo, <<"b", "c">>)
  /\ Str(importCalls[2].declaration) = ""
  /\ ListedNames(importCalls[3].declaration) = <<"c">>
  /\ DOMAIN importMap = {ModuleFoo}
  /\ Range(importMap[ModuleFoo]) = {"a", "b", "c"}


(***************************************************************************)
(* Properties of the emitters: optional members, generics, variables       *)
(***************************************************************************)

\* C25: every property member marked optional in the source (an interface
\* property signature, a class property, a property of a literal type) keeps
\* the `?` after its name in the emitted member line.
C25_OptionalPropertyKeepsMark ==
  (hFile # <<>> /\ hResult # Pending /\ Emitted(hFile[Subject]))
    => \A m \in RenderedProperties(hFile[Subject]) :
         m.questionToken =>
           \E i \in 1..(Len(SubjectText) - 1) :
             /\ SubjectText[i] = m.name
             /\ SubjectText[i + 1] \in {"?", "?:", "?: "}

\* C26: the `declare function` line of a named top-level function that
\* declares type parameters carries the generic-parameter list, the names in
\* angle brackets after the function name.
C26_FunctionKeepsGenerics ==
  (EmittedKind("FunctionDeclaration") /\ Len(hFile[Subject].typeParameters) > 0)
    => LET node     == hFile[Subject]
           generics == Angle(getGenerics(node))
       IN  Str(SubSeq(SubjectText, 1, 2 + Len(generics)))
             = "declare function " \o node.name \o Str(generics)

\* The text the variable-statement emitter is to return for a statement whose
\* first modifier is `declare`: the documentation, `declare const `, the text
\* of every declarator named by an identifier, and two newlines.
DeclareConst(node) ==
  getJsDocComment(node) \o <<"declare const ">>
    \o Concat([i \in 1..Len(node.declarations) |->
                 IF node.declarations[i].isIdentifier
                 THEN <<node.declarations[i].text>> ELSE <<>>])
    \o <<"\n\n">>

\* C30: the variable-statement emitter returns a non-empty declaration
\* exactly when the first modifier of the statement is `declare`: a statement
\* whose `declare` follows another modifier yields '' like a statement
\* without modifiers; what it emits is `declare const ` followed by the text
\* of every declarator whose name is an identifier (after the documentation
\* of the statement, before two newlines), whatever the keyword of the source.
C30_DeclareFirstThenConst ==
  (hFile # <<>> /\ hResult # Pending /\ hFile[Subject].kind = "VariableStatement")
    => LET node         == hFile[Subject]
           declareFirst == Len(node.modifiers) > 0 /\ node.modifiers[1] = "declare"
       IN  /\ ~hResult.raised
           /\ Truthy(SubjectText) <=> declareFirst
           /\ declareFirst => Str(SubjectText) = Str(DeclareConst(node))
           /\ ~declareFirst => SubjectAddsNothing

\* C30 witness: `declare let u = 1, v = f()` was traversed and gave
\* `declare const u = 1v = f()`.
C30_Witness ==
  /\ hFile # <<>>
  /\ hResult # Pending
  /\ hFile[Subject].kind = "VariableStatement"
  /\ hFile[Subject].modifiers = <<"declare">>
  /\ hFile[Subject].keyword = "let"
  /\ Len(hFile[Subject].declarations) = 2
  /\ Str(SubjectText) = "declare const u = 1v = f()\n\n"

(***************************************************************************)
(* Properties of run(): one file at a time, selection                      *)
(***************************************************************************)

\* The files read by this run so far, in the order of the reads.
FilesRead ==
  LET reads == SelectSeq(ops, LAMBDA o : o.op = "readFile")
  IN  [k \in 1..Len(reads) |-> reads[k].target]

\* C27: files are processed one at a time and in order: a file is read only
\* after the result of the one before it was appended, and the output file
\* is written once, as the last step, after every selected file was processed.
C27_OneFileAtATime ==
  /\ Len(FilesRead) <= Len(files)
  /\ \A k \in 1..Len(FilesRead) : FilesRead[k] = ToString(files[k])
  /\ Len(results) \in {Len(FilesRead), Len(FilesRead) - 1}
  /\ Len(results) < Len(FilesRead) => pc = "failed"
  /\ pc = "loop" => Len(results) = idx - 1
  /\ Str(outputContent) = Str(MergedDocument)
  /\ Cardinality(OpsAt("writeFileSync")) <= 1
  /\ OpsAt("writeFileSync") # {} <=> pc = "done"
  /\ pc = "done" => /\ OpsAt("writeFileSync") = {Len(ops)}
                    /\ Len(FilesRead) = Len(files)
                    /\ Len(results) = Len(files)

\* C27 witness: two files were selected, read one after the other and the
\* document written after the second.
C27_Witness ==
  /\ pc = "done"
  /\ Len(files) = 2
  /\ FilesRead = <<ToString(files[1]), ToString(files[2])>>
  /\ ops[Len(ops)].op = "writeFileSync"
  /\ ~results[1].isNull
  /\ ~results[2].isNull

\* The sequence backwards.
Reverse(seq) == [i \in 1..Len(seq) |-> seq[Len(seq) + 1 - i]]

\* What getFiles returns for an include list, as entries of the listing.
Selection(include) ==
  LET fileNames == [i \in 1..Len(listing) |-> Entries[listing[i]].path]
      selected  == getFiles(include, fileNames)
  IN  [k \in 1..Len(selected) |-> listing[selected[k]]]

\* Where an entry sits in the listing.
ListedAt(id) == CHOOSE i \in 1..Len(listing) : listing[i] = id

\* C29: what getFiles returns is a subsequence of the listing: an entry that
\* several include patterns match appears once, the selected entries keep the
\* order of the listing, and the order of the include patterns does not
\* change the result.
C29_SelectionIsSubsequence ==
  pc \in {"loop", "done"} =>
    /\ \A k \in 1..Len(files) : files[k] \in Range(listing)
    /\ \A i, j \in 1..Len(files) : i < j => ListedAt(files[i]) < ListedAt(files[j])
    /\ files = Selection(Reverse(tsConfigOptions.options.include))


====
